---- MODULE Spec2Model ----
(***************************************************************************)
(* A model of the sqlParser repository: the tokenizer (src/lexer/lex.rs)   *)
(* and the recursive-descent / operator-precedence parser                  *)
(* (src/parser/parser.rs) producing the AST of src/ast/ast.rs.             *)
(*                                                                         *)
(* Representation.  A grapheme is a one-character string.  A text (the     *)
(* Vec<String> buffers of the tokenizers, and the String payloads built    *)
(* from them by concat) is a sequence of graphemes.  An enum value is a    *)
(* tuple whose first element is the variant name: Token::Select is         *)
(* <<"Select">>, Token::Identifier(s) is <<"Identifier", s>>,              *)
(* Operand::Addition(l, r) is <<"Addition", l, r>>, None is <<"None">>.    *)
(* token_index is 0-based as in the source; tokens[i] of the source is     *)
(* tokens[i + 1] here.                                                     *)
(***************************************************************************)
EXTENDS Integers, Sequences, FiniteSets, TLC

VARIABLES
    query,        \* the query string handed to Parser::new / lex
    phase,        \* "lex" | "parse" | "done"
    lexPos,       \* number of graphemes lex has taken from query
    lexTokens,    \* lex: let mut tokens
    lexTokenizer, \* lex: let mut tokenizer (the active sub-tokenizer or none)
    tokens,       \* Parser.tokens
    token_index,  \* Parser.token_index
    stack,        \* the parser's call stack, innermost frame last
    ret,          \* the value the callee that just returned handed back
    result,       \* what Parser::parse returned
    run,          \* which parse of the whitespace harness is running
    first         \* the first parse's result, kept by the harness

vars == <<query, phase, lexPos, lexTokens, lexTokenizer, tokens, token_index,
          stack, ret, result, run, first>>

----------------------------------------------------------------------------
(* Characters *)

LowerLetters == <<"a","b","c","d","e","f","g","h","i","j","k","l","m",
                  "n","o","p","q","r","s","t","u","v","w","x","y","z">>
UpperLetters == <<"A","B","C","D","E","F","G","H","I","J","K","L","M",
                  "N","O","P","Q","R","S","T","U","V","W","X","Y","Z">>
Digits == <<"0","1","2","3","4","5","6","7","8","9">>

Range(s) == { s[i] : i \in DOMAIN s }

IsAsciiAlphabetic(c) == c \in Range(LowerLetters) \cup Range(UpperLetters)
IsAsciiDigit(c) == c \in Range(Digits)
IsWhitespace(c) == c \in {" ", "\t", "\n", "\r"}

LetterIndex(s, c) == CHOOSE i \in DOMAIN s : s[i] = c

CharToLower(c) ==
    IF c \in Range(UpperLetters) THEN LowerLetters[LetterIndex(UpperLetters, c)] ELSE c
CharToUpper(c) ==
    IF c \in Range(LowerLetters) THEN UpperLetters[LetterIndex(LowerLetters, c)] ELSE c

to_lowercase(s) == [i \in DOMAIN s |-> CharToLower(s[i])]
to_uppercase(s) == [i \in DOMAIN s |-> CharToUpper(s[i])]

----------------------------------------------------------------------------
(* Tokens *)

Select == <<"Select">>
Where == <<"Where">>
From == <<"From">>
And == <<"And">>
Or == <<"Or">>
Not == <<"Not">>
Limit == <<"Limit">>
Is == <<"Is">>
As == <<"As">>
Null == <<"Null">>
Order == <<"Order">>
By == <<"By">>
Asc == <<"Asc">>
Desc == <<"Desc">>
In == <<"In">>
True == <<"True">>
False == <<"False">>
Star == <<"Star">>
Comma == <<"Comma">>
LessThan == <<"LessThan">>
LessThanEqual == <<"LessThanEqual">>
GreaterThan == <<"GreaterThan">>
GreaterThanEqual == <<"GreaterThanEqual">>
Equal == <<"Equal">>
NotEqual == <<"NotEqual">>
LeftParenthesis == <<"LeftParenthesis">>
RightParenthesis == <<"RightParenthesis">>
Semicolon == <<"Semicolon">>
Period == <<"Period">>
Space == <<"Space">>
Plus == <<"Plus">>
Minus == <<"Minus">>
ForwardSlash == <<"ForwardSlash">>
UndefinedTokenType == <<"UndefinedTokenType">>
Number(s) == <<"Number", s>>
StringToken(s) == <<"StringToken", s>>
Identifier(s) == <<"Identifier", s>>

\* a comparison of whole tokens, payloads included
TokensEqual(t1, t2) == t1 = t2

token_types_match(t1, t2) ==
    CASE t1[1] = "Number" /\ t2[1] = "Number" -> TRUE
      [] t1[1] = "StringToken" /\ t2[1] = "StringToken" -> TRUE
      [] t1[1] = "Identifier" /\ t2[1] = "Identifier" -> TRUE
      [] OTHER -> t1 = t2

is_expression_operator(t) ==
    t \in {And, Or, Not, Is, In, LessThan, LessThanEqual, GreaterThan,
           GreaterThanEqual, Equal, NotEqual, Plus, Minus, Star, ForwardSlash}

----------------------------------------------------------------------------
(* Sub-tokenizers.  A tokenizer is [kind, quote, text]; NoTokenizer is the *)
(* None of Option<Box<dyn Tokenizer>>.                                     *)

NoTokenizer == [kind |-> "None", quote |-> "", text |-> <<>>]

\* the backtick cannot be written inside a TLA+ string: this names the grapheme
Backtick == "BACKTICK"
QuoteTypes == {"'", "\"", Backtick}

QuotedStart(c) == c \in QuoteTypes
QuotedNew(c) == [kind |-> "Quoted", quote |-> c, text |-> <<>>]
\* a quoted tokenizer that closes on every matching quote
QuotedAddNoEscape(t, c) ==
    IF c = t.quote
    THEN [done |-> TRUE, consumed |-> TRUE, t |-> t]
    ELSE [done |-> FALSE, consumed |-> TRUE, t |-> [t EXCEPT !.text = Append(@, c)]]

\* add_next_character returns (done, consumed) and may push to text
QuotedAdd(t, c) ==
    IF t.text # <<>> /\ t.text[Len(t.text)] = "\\" /\ t.quote = c
    THEN [done |-> FALSE, consumed |-> TRUE, t |-> [t EXCEPT !.text = Append(@, c)]]
    ELSE IF c = t.quote
         THEN [done |-> TRUE, consumed |-> TRUE, t |-> t]
         ELSE [done |-> FALSE, consumed |-> TRUE, t |-> [t EXCEPT !.text = Append(@, c)]]
QuotedToToken(t) ==
    IF t.quote = "'" THEN StringToken(t.text) ELSE Identifier(t.text)

Keywords == <<
    [token |-> Select, text |-> <<"s","e","l","e","c","t">>],
    [token |-> Where,  text |-> <<"w","h","e","r","e">>],
    [token |-> From,   text |-> <<"f","r","o","m">>],
    [token |-> And,    text |-> <<"a","n","d">>],
    [token |-> Or,     text |-> <<"o","r">>],
    [token |-> Not,    text |-> <<"n","o","t">>],
    [token |-> Limit,  text |-> <<"l","i","m","i","t">>],
    [token |-> Is,     text |-> <<"i","s">>],
    [token |-> As,     text |-> <<"a","s">>],
    [token |-> Null,   text |-> <<"n","u","l","l">>],
    [token |-> Order,  text |-> <<"o","r","d","e","r">>],
    [token |-> By,     text |-> <<"b","y">>],
    [token |-> Asc,    text |-> <<"a","s","c">>],
    [token |-> Desc,   text |-> <<"d","e","s","c">>],
    [token |-> In,     text |-> <<"i","n">>],
    [token |-> True,   text |-> <<"t","r","u","e">>],
    [token |-> False,  text |-> <<"f","a","l","s","e">>] >>

\* Option<Token>: TRUE when keyword ms matches the scanned text ss
match_keyword(ms, ss) ==
    IF to_lowercase(ss) = ss \/ to_uppercase(ss) = ss
    THEN to_lowercase(ms) = to_lowercase(ss)
    ELSE FALSE

KeywordStart(c) == IsAsciiAlphabetic(c) \/ c = "_"
KeywordNew(c) == [kind |-> "Keyword", quote |-> "", text |-> <<c>>]
KeywordAdd(t, c) ==
    IF IsAsciiAlphabetic(c) \/ IsAsciiDigit(c) \/ c = "_"
    THEN [done |-> FALSE, consumed |-> TRUE, t |-> [t EXCEPT !.text = Append(@, c)]]
    ELSE [done |-> TRUE, consumed |-> FALSE, t |-> t]
KeywordToToken(t) ==
    LET hits == { i \in DOMAIN Keywords : match_keyword(Keywords[i].text, t.text) }
    IN  IF hits # {}
        THEN Keywords[CHOOSE i \in hits : \A j \in hits : i <= j].token
        ELSE Identifier(t.text)

Symbols == <<
    [token |-> Star,             text |-> <<"*">>],
    [token |-> Comma,            text |-> <<",">>],
    [token |-> LessThan,         text |-> <<"<">>],
    [token |-> LessThanEqual,    text |-> <<"<","=">>],
    [token |-> GreaterThan,      text |-> <<">">>],
    [token |-> GreaterThanEqual, text |-> <<">","=">>],
    [token |-> Equal,            text |-> <<"=">>],
    [token |-> NotEqual,         text |-> <<"!","=">>],
    [token |-> LeftParenthesis,  text |-> <<"(">>],
    [token |-> RightParenthesis, text |-> <<")">>],
    [token |-> Semicolon,        text |-> <<";">>],
    [token |-> Period,           text |-> <<".">>],
    [token |-> Plus,             text |-> <<"+">>],
    [token |-> Minus,            text |-> <<"-">>],
    [token |-> ForwardSlash,     text |-> <<"/">>] >>

\* symbol.text == v.to_string(): the whole symbol text against one character
SymbolStart(c) == \E i \in DOMAIN Symbols : Symbols[i].text = <<c>>
SymbolNew(c) == [kind |-> "Symbol", quote |-> "", text |-> <<c>>]

\* a symbol tokenizer that lets any one-grapheme symbol take a following "="
SymbolAddAnyEqual(t, c) ==
    IF Len(t.text) = 1 /\ c = "="
    THEN [done |-> TRUE, consumed |-> TRUE, t |-> [t EXCEPT !.text = Append(@, c)]]
    ELSE [done |-> TRUE, consumed |-> FALSE, t |-> t]

SymbolAdd(t, c) ==
    IF Len(t.text) = 1 /\ t.text[1] \in {">", "<"} /\ c = "="
    THEN [done |-> TRUE, consumed |-> TRUE, t |-> [t EXCEPT !.text = Append(@, c)]]
    ELSE [done |-> TRUE, consumed |-> FALSE, t |-> t]
SymbolToToken(t) ==
    LET hits == { i \in DOMAIN Symbols : Symbols[i].text = t.text }
    IN  IF hits # {}
        THEN Symbols[CHOOSE i \in hits : \A j \in hits : i <= j].token
        ELSE Identifier(t.text)

NumberStart(c) == IsAsciiDigit(c) \/ c = "."
NumberNew(c) == [kind |-> "Number", quote |-> "", text |-> <<c>>]
NumberAdd(t, c) ==
    IF IsAsciiDigit(c) \/ c = "."
    THEN [done |-> FALSE, consumed |-> TRUE, t |-> [t EXCEPT !.text = Append(@, c)]]
    ELSE [done |-> TRUE, consumed |-> FALSE, t |-> t]

SpaceStart(c) == IsWhitespace(c)
SpaceNew(c) == [kind |-> "Space", quote |-> "", text |-> <<>>]

\* a whitespace tokenizer that ends at every grapheme
SpaceAddOne(t, c) == [done |-> TRUE, consumed |-> FALSE, t |-> t]

SpaceAdd(t, c) ==
    IF IsWhitespace(c)
    THEN [done |-> FALSE, consumed |-> TRUE, t |-> t]
    ELSE [done |-> TRUE, consumed |-> FALSE, t |-> t]

\* the dyn Tokenizer dispatch
add_next_character(t, c) ==
    CASE t.kind = "Quoted"  -> QuotedAdd(t, c)
      [] t.kind = "Keyword" -> KeywordAdd(t, c)
      [] t.kind = "Symbol"  -> SymbolAdd(t, c)
      [] t.kind = "Number"  -> NumberAdd(t, c)
      [] t.kind = "Space"   -> SpaceAdd(t, c)
to_token(t) ==
    CASE t.kind = "Quoted"  -> QuotedToToken(t)
      [] t.kind = "Keyword" -> KeywordToToken(t)
      [] t.kind = "Symbol"  -> SymbolToToken(t)
      [] t.kind = "Number"  -> Number(t.text)
      [] t.kind = "Space"   -> Space

----------------------------------------------------------------------------
(* lex: one iteration of its loop over the graphemes, and its epilogue.    *)
(* A lexer state is [tokens, tokenizer].                                   *)

\* a dispatch that drops a grapheme no tokenizer starts on
DispatchSilent(toks, c) ==
    IF QuotedStart(c)       THEN [tokens |-> toks, tokenizer |-> QuotedNew(c)]
    ELSE IF KeywordStart(c) THEN [tokens |-> toks, tokenizer |-> KeywordNew(c)]
    ELSE IF SymbolStart(c)  THEN [tokens |-> toks, tokenizer |-> SymbolNew(c)]
    ELSE IF NumberStart(c)  THEN [tokens |-> toks, tokenizer |-> NumberNew(c)]
    ELSE IF SpaceStart(c)   THEN [tokens |-> toks, tokenizer |-> SpaceNew(c)]
    ELSE [tokens |-> toks, tokenizer |-> NoTokenizer]

\* a dispatch that asks the number tokenizer before the symbol tokenizer
DispatchNumberFirst(toks, c) ==
    IF QuotedStart(c)       THEN [tokens |-> toks, tokenizer |-> QuotedNew(c)]
    ELSE IF KeywordStart(c) THEN [tokens |-> toks, tokenizer |-> KeywordNew(c)]
    ELSE IF NumberStart(c)  THEN [tokens |-> toks, tokenizer |-> NumberNew(c)]
    ELSE IF SymbolStart(c)  THEN [tokens |-> toks, tokenizer |-> SymbolNew(c)]
    ELSE IF SpaceStart(c)   THEN [tokens |-> toks, tokenizer |-> SpaceNew(c)]
    ELSE [tokens |-> Append(toks, UndefinedTokenType), tokenizer |-> NoTokenizer]

\* lines 538-560: no tokenizer is active (any more) for grapheme c
Dispatch(toks, c) ==
    IF QuotedStart(c)       THEN [tokens |-> toks, tokenizer |-> QuotedNew(c)]
    ELSE IF KeywordStart(c) THEN [tokens |-> toks, tokenizer |-> KeywordNew(c)]
    ELSE IF SymbolStart(c)  THEN [tokens |-> toks, tokenizer |-> SymbolNew(c)]
    ELSE IF NumberStart(c)  THEN [tokens |-> toks, tokenizer |-> NumberNew(c)]
    ELSE IF SpaceStart(c)   THEN [tokens |-> toks, tokenizer |-> SpaceNew(c)]
    ELSE [tokens |-> Append(toks, UndefinedTokenType), tokenizer |-> NoTokenizer]

\* a loop body that emits the finished token and does not look at the
\* grapheme that ended it
LexGraphemeNoRedispatch(st, c) ==
    IF st.tokenizer # NoTokenizer
    THEN LET r == add_next_character(st.tokenizer, c)
         IN  IF r.done
             THEN [tokens |-> Append(st.tokens, to_token(r.t)),
                   tokenizer |-> NoTokenizer]
             ELSE [tokens |-> st.tokens, tokenizer |-> r.t]
    ELSE Dispatch(st.tokens, c)

\* lines 524-561: the loop body for grapheme c
LexGraphemeStep(st, c) ==
    IF st.tokenizer # NoTokenizer
    THEN LET r == add_next_character(st.tokenizer, c)
         IN  IF r.done
             THEN IF r.consumed
                  THEN [tokens |-> Append(st.tokens, to_token(r.t)),
                        tokenizer |-> NoTokenizer]
                  ELSE Dispatch(Append(st.tokens, to_token(r.t)), c)
             ELSE [tokens |-> st.tokens, tokenizer |-> r.t]
    ELSE Dispatch(st.tokens, c)

\* an epilogue that returns the finished tokens and drops the open tokenizer
LexFinishDrops(st) == st.tokens

\* lines 563-569: the open tokenizer, if any, is finalized
LexFinish(st) ==
    IF st.tokenizer # NoTokenizer
    THEN Append(st.tokens, to_token(st.tokenizer))
    ELSE st.tokens

----------------------------------------------------------------------------
(* AST values (src/ast/ast.rs) and ParseError (parser.rs 11-29)            *)

None == <<"None">>
Some(x) == <<"Some", x>>

EmptyQueryString == <<"EmptyQueryString">>
InvalidToken(t) == <<"InvalidToken", t>>
InvalidNextToken(e, t) == <<"InvalidNextToken", e, t>>
NoMoreTokens == <<"NoMoreTokens">>
InvalidNumber(s) == <<"InvalidNumber", s>>
OperandTokenNotImplemented(t) == <<"OperandTokenNotImplemented", t>>
OperandCompactionIssue(s) == <<"OperandCompactionIssue", s>>
NotImplemented(s) == <<"NotImplemented", s>>

----------------------------------------------------------------------------
(* Cursor primitives of Parser.  Each takes the cursor i (token_index) and *)
(* hands back the cursor it leaves.                                        *)

NumTokens == Len(tokens)
Tok(i) == tokens[i + 1]
NoMore(i) == ~(i < NumTokens)

RECURSIVE SkipSpaces(_)
SkipSpaces(i) == IF i < NumTokens /\ Tok(i) = Space THEN SkipSpaces(i + 1) ELSE i

\* a cursor move that steps over one token and skips no Space
ReadNextNoSkip(i) == i + 1

\* the cursor after read_next_token; its bool result is (that cursor < len)
read_next_token(i) == SkipSpaces(i + 1)

\* a look-ahead with no length test, which compares the tokens that are left
PeekWhatIsLeft(i, expected) ==
    \A k \in 1..Len(expected) :
        i + k - 1 < NumTokens => token_types_match(expected[k], Tok(i + k - 1))

peek_match_token_types(i, expected) ==
    IF i + Len(expected) > NumTokens
    THEN FALSE
    ELSE \A k \in 1..Len(expected) : token_types_match(expected[k], Tok(i + k - 1))

match_token(i, expected) ==
    IF NoMore(i) THEN [ok |-> FALSE, err |-> NoMoreTokens, idx |-> i]
    ELSE IF expected = Tok(i) THEN [ok |-> TRUE, err |-> None, idx |-> read_next_token(i)]
    ELSE [ok |-> FALSE, err |-> InvalidNextToken(expected, Tok(i)), idx |-> i]

AnyIdentifier == Identifier(<<>>)
AnyNumber == Number(<<>>)

\* a loop test that also goes on at a parenthesis
ContinuesOnParenthesis(i) ==
    \/ is_expression_operator(Tok(i))
    \/ Tok(i) \in {LeftParenthesis, RightParenthesis}
    \/ peek_match_token_types(i, <<AnyIdentifier, LeftParenthesis>>)
    \/ peek_match_token_types(i, <<AnyIdentifier>>)
    \/ peek_match_token_types(i, <<AnyNumber>>)

\* a loop test that also goes on at a string or a TRUE, FALSE or NULL
ContinuesOnLiteral(i) ==
    \/ is_expression_operator(Tok(i))
    \/ Tok(i)[1] = "StringToken"
    \/ Tok(i) \in {True, False, Null}
    \/ peek_match_token_types(i, <<AnyIdentifier, LeftParenthesis>>)
    \/ peek_match_token_types(i, <<AnyIdentifier>>)
    \/ peek_match_token_types(i, <<AnyNumber>>)

expression_continues(i) ==
    \/ is_expression_operator(Tok(i))
    \/ peek_match_token_types(i, <<AnyIdentifier, LeftParenthesis>>)
    \/ peek_match_token_types(i, <<AnyIdentifier>>)
    \/ peek_match_token_types(i, <<AnyNumber>>)

\* a precedence table with one level only
FlatPrecedence(t) == 10


operator_precedence(t) ==
    CASE t = Or -> 7
      [] t = And -> 8
      [] t \in {Equal, NotEqual, LessThan, LessThanEqual, GreaterThan, GreaterThanEqual} -> 9
      [] t \in {Plus, Minus} -> 10
      [] t \in {Star, ForwardSlash} -> 11
      [] OTHER -> 0

OperandVariant(t) ==
    CASE t = Plus -> "Addition"
      [] t = Minus -> "Subtraction"
      [] t = Star -> "Multiplication"
      [] t = ForwardSlash -> "Division"
      [] t = Equal -> "Equal"
      [] t = NotEqual -> "NotEqual"
      [] t = LessThan -> "LessThan"
      [] t = LessThanEqual -> "LessThanOrEqual"
      [] t = GreaterThan -> "GreaterThan"
      [] t = GreaterThanEqual -> "GreaterThanOrEqual"
      [] t = Or -> "Or"
      [] t = And -> "And"
      [] OTHER -> ""

\* a mapping that gives every expression operator a node
ApplyEveryOperator(t, left_operand, right_operand) ==
    IF ~is_expression_operator(t)
    THEN [ok |-> FALSE, err |-> InvalidToken(t), val |-> None]
    ELSE [ok |-> TRUE, err |-> None,
          val |-> <<IF OperandVariant(t) = "" THEN t[1] ELSE OperandVariant(t),
                    left_operand, right_operand>>]

apply_operator_to_terms(t, left_operand, right_operand) ==
    IF ~is_expression_operator(t)
    THEN [ok |-> FALSE, err |-> InvalidToken(t), val |-> None]
    ELSE IF OperandVariant(t) = ""
         THEN [ok |-> FALSE, err |-> OperandTokenNotImplemented(t), val |-> None]
         ELSE [ok |-> TRUE, err |-> None,
               val |-> <<OperandVariant(t), left_operand, right_operand>>]

\* operators.iter().rev().take_while(|t| t != LeftParenthesis).count()
RECURSIVE OperatorsInGroup(_)
OperatorsInGroup(ops) ==
    IF ops = <<>> \/ ops[Len(ops)] = LeftParenthesis THEN 0
    ELSE 1 + OperatorsInGroup(SubSeq(ops, 1, Len(ops) - 1))

ButLast(s, n) == SubSeq(s, 1, Len(s) - n)
Last(s) == s[Len(s)]

\* a compaction that leaves the applied operator on its stack
CompactKeepsOperator(operands, operators) ==
    LET r == apply_operator_to_terms(Last(operators), operands[Len(operands) - 1],
                                     Last(operands))
    IN  [ok |-> r.ok, err |-> r.err,
         operands |-> IF r.ok THEN Append(ButLast(operands, 2), r.val) ELSE operands,
         operators |-> operators]

\* pop two operands and the top operator, push the combined node
\* (parser.rs 336-341, 368-373, 397-401)
Compact(operands, operators) ==
    LET r == apply_operator_to_terms(Last(operators), operands[Len(operands) - 1],
                                     Last(operands))
    IN  [ok |-> r.ok, err |-> r.err,
         operands |-> IF r.ok THEN Append(ButLast(operands, 2), r.val) ELSE operands,
         operators |-> ButLast(operators, 1)]

\* the while loop run on a right parenthesis (parser.rs 353-374)
RECURSIVE CompactGroup(_, _)
CompactGroup(operands, operators) ==
    IF Len(operands) > OperatorsInGroup(operators)
       /\ Len(operators) > 0 /\ Len(operands) >= 2
    THEN IF Last(operators) = LeftParenthesis
         THEN [ok |-> TRUE, err |-> None, operands |-> operands,
               operators |-> ButLast(operators, 1)]
         ELSE LET c == Compact(operands, operators)
              IN  IF c.ok THEN CompactGroup(c.operands, c.operators) ELSE c
    ELSE [ok |-> TRUE, err |-> None, operands |-> operands, operators |-> operators]

----------------------------------------------------------------------------
(* Number literals: str::parse::<i64>() and str::parse::<f64>() on a text  *)
(* of digits and periods.  An integer value is its decimal numeral without *)
(* leading zeros; a float value is the pair of its integer numeral and its *)
(* fraction digits without trailing zeros (the rounding of f64 is not      *)
(* modelled).                                                              *)

I64Max == <<"9","2","2","3","3","7","2","0","3","6","8","5","4","7","7","5","8","0","7">>

RECURSIVE StripLeadingZeros(_)
StripLeadingZeros(s) ==
    IF Len(s) > 1 /\ s[1] = "0" THEN StripLeadingZeros(Tail(s)) ELSE s
RECURSIVE StripTrailingZeros(_)
StripTrailingZeros(s) ==
    IF s # <<>> /\ Last(s) = "0" THEN StripTrailingZeros(ButLast(s, 1)) ELSE s

DigitValue(c) == (CHOOSE i \in DOMAIN Digits : Digits[i] = c) - 1

\* numerals of equal length compared digit by digit
RECURSIVE NumeralLeq(_, _)
NumeralLeq(a, b) ==
    IF a = <<>> THEN TRUE
    ELSE IF DigitValue(a[1]) < DigitValue(b[1]) THEN TRUE
    ELSE IF DigitValue(a[1]) > DigitValue(b[1]) THEN FALSE
    ELSE NumeralLeq(Tail(a), Tail(b))

AllDigits(s) == \A i \in DOMAIN s : IsAsciiDigit(s[i])

\* an integer parse with no upper limit
ParseAnyDigits(s) ==
    IF s # <<>> /\ AllDigits(s)
    THEN [ok |-> TRUE, val |-> <<"Int", StripLeadingZeros(s)>>]
    ELSE [ok |-> FALSE, val |-> None]

parse_i64(s) ==
    LET n == StripLeadingZeros(s)
    IN  IF s # <<>> /\ AllDigits(s)
           /\ (Len(n) < Len(I64Max) \/ (Len(n) = Len(I64Max) /\ NumeralLeq(n, I64Max)))
        THEN [ok |-> TRUE, val |-> <<"Int", n>>]
        ELSE [ok |-> FALSE, val |-> None]

parse_f64(s) ==
    LET dots == { i \in DOMAIN s : s[i] = "." }
        d == IF dots = {} THEN Len(s) + 1 ELSE CHOOSE i \in dots : TRUE
        ip == SubSeq(s, 1, d - 1)
        fp == SubSeq(s, d + 1, Len(s))
    IN  IF Cardinality(dots) <= 1 /\ AllDigits(ip) /\ AllDigits(fp) /\ Len(ip) + Len(fp) > 0
        THEN [ok |-> TRUE,
              val |-> <<"Float", StripLeadingZeros(IF ip = <<>> THEN <<"0">> ELSE ip),
                        StripTrailingZeros(fp)>>]
        ELSE [ok |-> FALSE, val |-> None]

----------------------------------------------------------------------------
(* The parser's call stack.  A frame is one activation of a parser method: *)
(* fn is the method, pc the place it is at, the other fields its locals.   *)
(* A step of a method ends in one of four outcomes: it fails (an Err that  *)
(* every caller passes on with `?`), it returns a value, it goes on to     *)
(* another place of the same activation, or it calls another method.       *)

Frame(fn, pc) ==
    [fn |-> fn, pc |-> pc,
     list |-> <<>>,            \* select_expressions / expressions
     name |-> <<>>,            \* id_name
     a |-> None, b |-> None,   \* results of earlier calls
     operands |-> <<>>, operators |-> <<>>, last_was_term |-> FALSE,
     entry |-> 0]              \* token_index when the method was called

OFail(e, i) == [k |-> "fail", err |-> e, idx |-> i]
ORet(v, i) == [k |-> "ret", val |-> v, idx |-> i]
OGoto(f, i) == [k |-> "goto", frame |-> f, idx |-> i]
OCall(f, callee, i) == [k |-> "call", frame |-> f, callee |-> callee, idx |-> i]

\* a name routine that reads one identifier and never a schema
UnqualifiedName(i) ==
    IF NoMore(i) THEN [ok |-> FALSE, err |-> NoMoreTokens, idx |-> i]
    ELSE IF Tok(i)[1] # "Identifier"
    THEN [ok |-> FALSE, err |-> InvalidToken(Tok(i)), idx |-> i]
    ELSE [ok |-> TRUE, err |-> None, idx |-> match_token(i, Tok(i)).idx,
          schema |-> None, name |-> Tok(i)[2]]

\* a name routine that takes every ".name" that follows and keeps the
\* qualifiers read so far, joined, as the schema
RECURSIVE QualifiedMore(_, _, _)
QualifiedMore(i, schema, name) ==
    IF peek_match_token_types(i, <<Period, AnyIdentifier>>)
    THEN LET j == match_token(i, Period).idx
         IN  QualifiedMore(match_token(j, Tok(j)).idx,
                           IF schema = None THEN Some(name)
                           ELSE Some(schema[2] \o <<".">> \o name),
                           Tok(j)[2])
    ELSE [ok |-> TRUE, err |-> None, idx |-> i, schema |-> schema, name |-> name]

ManyQualifiers(i) ==
    IF NoMore(i) THEN [ok |-> FALSE, err |-> NoMoreTokens, idx |-> i]
    ELSE IF Tok(i)[1] # "Identifier"
    THEN [ok |-> FALSE, err |-> InvalidToken(Tok(i)), idx |-> i]
    ELSE QualifiedMore(match_token(i, Tok(i)).idx, None, Tok(i)[2])

\* match_table_name (parser.rs 251-281), shared by table and column names
match_table_name(i) ==
    LET has_schema_and_table ==
            peek_match_token_types(i, <<AnyIdentifier, Period, AnyIdentifier>>)
    IN  IF NoMore(i) THEN [ok |-> FALSE, err |-> NoMoreTokens, idx |-> i]
        ELSE IF Tok(i)[1] # "Identifier"
        THEN [ok |-> FALSE, err |-> InvalidToken(Tok(i)), idx |-> i]
        ELSE
        LET id_name1 == Tok(i)[2]
            m1 == match_token(i, Tok(i))
        IN  IF has_schema_and_table
            THEN LET m2 == match_token(m1.idx, Period)
                 IN  IF ~m2.ok THEN m2
                     ELSE IF NoMore(m2.idx)
                     THEN [ok |-> FALSE, err |-> NoMoreTokens, idx |-> m2.idx]
                     ELSE IF Tok(m2.idx)[1] # "Identifier"
                     THEN [ok |-> FALSE, err |-> InvalidToken(Tok(m2.idx)), idx |-> m2.idx]
                     ELSE [ok |-> TRUE, err |-> None,
                           idx |-> match_token(m2.idx, Tok(m2.idx)).idx,
                           schema |-> Some(id_name1), name |-> Tok(m2.idx)[2]]
            ELSE [ok |-> TRUE, err |-> None, idx |-> m1.idx,
                  schema |-> None, name |-> id_name1]

\* an entry that calls match_select whatever the first token is
ParseStartUnchecked(f, i) ==
    IF NumTokens = 0 THEN OFail(EmptyQueryString, i)
    ELSE LET i1 == IF Tok(i) = Space THEN read_next_token(i) ELSE i
         IN  IF NoMore(i1) THEN OFail(NoMoreTokens, i1)
             ELSE OCall([f EXCEPT !.pc = "after_select"],
                        Frame("match_select", "start"), i1)

\* parse (parser.rs 98-111): up to the call of match_select
ParseStartStep(f, i) ==
    IF NumTokens = 0 THEN OFail(EmptyQueryString, i)
    ELSE LET i1 == IF Tok(i) = Space THEN read_next_token(i) ELSE i
         IN  IF NoMore(i1) THEN OFail(NoMoreTokens, i1)
             ELSE IF Tok(i1) = Select
                  THEN OCall([f EXCEPT !.pc = "after_select"],
                             Frame("match_select", "start"), i1)
                  ELSE OFail(InvalidToken(Tok(i1)), i1)

\* an end of parse that refuses tokens left after the `;`
ParseWholeInput(f, i, select_statement) ==
    LET m == match_token(i, Semicolon)
    IN  IF ~m.ok THEN OFail(m.err, m.idx)
        ELSE IF NoMore(m.idx) THEN ORet(<<"Select", select_statement[2]>>, m.idx)
        ELSE OFail(InvalidToken(Tok(m.idx)), m.idx)

\* parse (parser.rs 112-114): match_select has returned select_statement
ParseAfterSelectStep(f, i, select_statement) ==
    LET m == match_token(i, Semicolon)
    IN  IF m.ok THEN ORet(<<"Select", select_statement[2]>>, m.idx)
        ELSE OFail(m.err, m.idx)

\* match_select (parser.rs 120-127)
MatchSelectStartStep(f, i) ==
    LET m == match_token(i, Select)
    IN  IF m.ok
        THEN OCall([f EXCEPT !.pc = "after_list"],
                   Frame("match_select_expressions", "loop"), m.idx)
        ELSE OFail(m.err, m.idx)

\* match_select (parser.rs 128-141): one of its three calls has returned v
MatchSelectAfterStep(f, i, v) ==
    CASE f.pc = "after_list" ->
            OCall([f EXCEPT !.pc = "after_from", !.list = v[2]],
                  Frame("match_table_expression", "start"), i)
      [] f.pc = "after_from" ->
            OCall([f EXCEPT !.pc = "after_where", !.a = v],
                  Frame("match_where_expression", "start"), i)
      [] f.pc = "after_where" ->
            ORet(<<"SelectStatement",
                   [select_expressions |-> f.list, from_expression |-> f.a,
                    where_expression |-> v]>>, i)

\* a separator step that takes a comma when there is one and asks for none
SelectListSeparatorOptional(f, i, select_expressions) ==
    LET again == [f EXCEPT !.pc = "loop", !.list = select_expressions]
    IN  IF NoMore(i) THEN OFail(NoMoreTokens, i)
        ELSE IF Tok(i) = Comma THEN OGoto(again, match_token(i, Comma).idx)
        ELSE OGoto(again, i)

\* match_select_expressions (parser.rs 198-203): the separator after an item
SelectListSeparator(f, i, select_expressions) ==
    LET again == [f EXCEPT !.pc = "loop", !.list = select_expressions]
    IN  IF NoMore(i) THEN OFail(NoMoreTokens, i)
        ELSE IF Tok(i) # From
        THEN LET m == match_token(i, Comma)
             IN  IF ~m.ok THEN OFail(m.err, m.idx)
                 ELSE IF NoMore(m.idx) THEN OFail(NoMoreTokens, m.idx)
                 ELSE IF Tok(m.idx) = From THEN OFail(InvalidToken(From), m.idx)
                 ELSE OGoto(again, m.idx)
        ELSE OGoto(again, i)

\* a select-list loop that refuses FROM before the first item
SelectListNeedsItem(f, i) ==
    IF NoMore(i) THEN OFail(NoMoreTokens, i)
    ELSE IF Tok(i) = From
    THEN IF f.list = <<>> THEN OFail(InvalidToken(From), i) ELSE ORet(<<"Vec", f.list>>, i)
    ELSE IF Tok(i) = Star
    THEN LET m == match_token(i, Star)
         IN  SelectListSeparator(f, m.idx, Append(f.list, <<"Star">>))
    ELSE IF peek_match_token_types(i, <<AnyIdentifier, Period, Star>>)
    THEN LET id_name == Tok(i)[2]
             m1 == match_token(i, Identifier(id_name))
             m2 == match_token(m1.idx, Period)
             m3 == match_token(m2.idx, Star)
         IN  IF ~m1.ok THEN OFail(m1.err, m1.idx)
             ELSE IF ~m2.ok THEN OFail(m2.err, m2.idx)
             ELSE IF ~m3.ok THEN OFail(m3.err, m3.idx)
             ELSE SelectListSeparator(f, m3.idx, Append(f.list, <<"Family", id_name>>))
    ELSE OCall([f EXCEPT !.pc = "after_expr"], Frame("match_expression", "loop"), i)

\* match_select_expressions (parser.rs 149-172): the loop test and one item
SelectListLoopStep(f, i) ==
    IF NoMore(i) THEN OFail(NoMoreTokens, i)
    ELSE IF Tok(i) = From THEN ORet(<<"Vec", f.list>>, i)
    ELSE IF Tok(i) = Star
    THEN LET m == match_token(i, Star)
         IN  SelectListSeparator(f, m.idx, Append(f.list, <<"Star">>))
    ELSE IF peek_match_token_types(i, <<AnyIdentifier, Period, Star>>)
    THEN LET id_name == Tok(i)[2]
             m1 == match_token(i, Identifier(id_name))
             m2 == match_token(m1.idx, Period)
             m3 == match_token(m2.idx, Star)
         IN  IF ~m1.ok THEN OFail(m1.err, m1.idx)
             ELSE IF ~m2.ok THEN OFail(m2.err, m2.idx)
             ELSE IF ~m3.ok THEN OFail(m3.err, m3.idx)
             ELSE SelectListSeparator(f, m3.idx, Append(f.list, <<"Family", id_name>>))
    ELSE OCall([f EXCEPT !.pc = "after_expr"], Frame("match_expression", "loop"), i)

\* match_select_expressions (parser.rs 173-203): match_expression has returned
SelectListAfterExprStep(f, i, expression) ==
    IF NoMore(i) THEN OFail(NoMoreTokens, i)
    ELSE IF Tok(i) = As
    THEN LET m == match_token(i, As)
         IN  IF NoMore(m.idx) THEN OFail(NoMoreTokens, m.idx)
             ELSE IF Tok(m.idx)[1] # "Identifier" THEN OFail(InvalidToken(Tok(m.idx)), m.idx)
             ELSE SelectListSeparator(f, match_token(m.idx, Tok(m.idx)).idx,
                      Append(f.list, <<"Expression", expression, Some(Tok(m.idx)[2])>>))
    ELSE SelectListSeparator(f, i, Append(f.list, <<"Expression", expression, None>>))

\* match_table_expression (parser.rs 209-217, 238-248)
TableExpressionStartStep(f, i) ==
    LET m == match_token(i, From)
    IN  IF ~m.ok THEN OFail(m.err, m.idx)
        ELSE IF NoMore(m.idx) THEN OFail(NoMoreTokens, m.idx)
        ELSE IF Tok(m.idx) = LeftParenthesis
        THEN OCall([f EXCEPT !.pc = "after_select"], Frame("match_select", "start"),
                   match_token(m.idx, LeftParenthesis).idx)
        ELSE IF Tok(m.idx)[1] = "Identifier"
        THEN LET n == match_table_name(m.idx)
             IN  IF n.ok THEN ORet(<<"Table", n.schema, n.name>>, n.idx)
                 ELSE OFail(n.err, n.idx)
        ELSE OFail(NotImplemented("table expression type not implemented"), m.idx)

\* a sub-select tail that reads the alias and does not keep it
SubSelectForgetsAlias(f, i, select_statement) ==
    LET m == match_token(i, RightParenthesis)
    IN  IF ~m.ok THEN OFail(m.err, m.idx)
        ELSE IF NoMore(m.idx) THEN OFail(NoMoreTokens, m.idx)
        ELSE IF Tok(m.idx) = As
        THEN LET m2 == match_token(m.idx, As)
             IN  IF NoMore(m2.idx) THEN OFail(NoMoreTokens, m2.idx)
                 ELSE IF Tok(m2.idx)[1] # "Identifier"
                 THEN OFail(InvalidToken(Tok(m2.idx)), m2.idx)
                 ELSE ORet(<<"Select", select_statement[2], None>>,
                           match_token(m2.idx, Tok(m2.idx)).idx)
        ELSE ORet(<<"Select", select_statement[2], None>>, m.idx)

\* match_table_expression (parser.rs 218-237): the sub-select has returned
TableExpressionAfterSelectStep(f, i, select_statement) ==
    LET m == match_token(i, RightParenthesis)
    IN  IF ~m.ok THEN OFail(m.err, m.idx)
        ELSE IF NoMore(m.idx) THEN OFail(NoMoreTokens, m.idx)
        ELSE IF Tok(m.idx) = As
        THEN LET m2 == match_token(m.idx, As)
             IN  IF NoMore(m2.idx) THEN OFail(NoMoreTokens, m2.idx)
                 ELSE IF Tok(m2.idx)[1] # "Identifier"
                 THEN OFail(InvalidToken(Tok(m2.idx)), m2.idx)
                 ELSE ORet(<<"Select", select_statement[2], Some(Tok(m2.idx)[2])>>,
                           match_token(m2.idx, Tok(m2.idx)).idx)
        ELSE ORet(<<"Select", select_statement[2], None>>, m.idx)

\* match_where_expression (parser.rs 283-292)
WhereStartStep(f, i) ==
    IF NoMore(i) THEN OFail(NoMoreTokens, i)
    ELSE IF Tok(i) = Where
    THEN OCall([f EXCEPT !.pc = "after_expr"], Frame("match_expression", "loop"),
               match_token(i, Where).idx)
    ELSE ORet(None, i)

WhereAfterExprStep(f, i, expression) == ORet(Some(expression), i)

----------------------------------------------------------------------------
(* The expression engine: match_expression and match_base_term             *)

\* a reduction test that leaves an operator of equal precedence on the stack
ReducesOnLowerOnly(operands, operators, next_token) ==
    /\ operators # <<>>
    /\ operator_precedence(next_token) < operator_precedence(Last(operators))
    /\ Len(operands) >= 2

\* match_expression (parser.rs 322-334): whether the operator on top of the
\* stack is applied before next_token is pushed
ReducesBeforePush(operands, operators, next_token) ==
    LET number_of_operators == OperatorsInGroup(operators)
        number_of_operands == number_of_operators + 1
    IN  /\ operators # <<>>
        /\ operator_precedence(next_token) <= operator_precedence(Last(operators))
        /\ number_of_operands > number_of_operators
        /\ Len(operators) > 0
        /\ Len(operands) >= 2

\* match_expression (parser.rs 319-347): an operator arrives after a term
ExpressionOperatorStep(f, i, next_token) ==
    LET c == IF ReducesBeforePush(f.operands, f.operators, next_token)
             THEN Compact(f.operands, f.operators)
             ELSE [ok |-> TRUE, err |-> None,
                   operands |-> f.operands, operators |-> f.operators]
        m == match_token(i, next_token)
    IN  IF ~c.ok THEN OFail(c.err, i)
        ELSE OGoto([f EXCEPT !.operands = c.operands,
                             !.operators = Append(c.operators, next_token),
                             !.last_was_term = FALSE], m.idx)

\* match_expression (parser.rs 348-375): a right parenthesis after a term
ExpressionRightParenthesisStep(f, i) ==
    LET m == match_token(i, RightParenthesis)
        c == CompactGroup(f.operands, f.operators)
    IN  IF ~c.ok THEN OFail(c.err, m.idx)
        ELSE OGoto([f EXCEPT !.operands = c.operands, !.operators = c.operators,
                             !.last_was_term = TRUE], m.idx)

\* match_expression (parser.rs 300-383): the loop test and one iteration
ExpressionLoopStep(f, i) ==
    IF NoMore(i) THEN OFail(NoMoreTokens, i)
    ELSE IF ~expression_continues(i) THEN OGoto([f EXCEPT !.pc = "drain"], i)
    ELSE IF Tok(i) = LeftParenthesis
    THEN OGoto([f EXCEPT !.operators = Append(@, Tok(i)), !.last_was_term = FALSE],
               match_token(i, Tok(i)).idx)
    ELSE IF ~f.last_was_term
    THEN OCall([f EXCEPT !.pc = "after_term"], Frame("match_base_term", "start"), i)
    ELSE IF is_expression_operator(Tok(i)) THEN ExpressionOperatorStep(f, i, Tok(i))
    ELSE IF Tok(i) = RightParenthesis THEN ExpressionRightParenthesisStep(f, i)
    ELSE OFail(NotImplemented("expected an expression operator or right parenthesis"), i)

\* match_expression (parser.rs 313-315): match_base_term has returned term
ExpressionAfterTermStep(f, i, term) ==
    OGoto([f EXCEPT !.pc = "loop", !.operands = Append(@, <<"Term", term>>),
                    !.last_was_term = TRUE], i)

\* a final check that returns the first operand whenever there is one
DrainReturnsFirst(f, i) ==
    IF Len(f.operators) > 0 /\ Len(f.operands) >= 2
    THEN IF Last(f.operators) \in {LeftParenthesis, RightParenthesis}
         THEN OFail(OperandCompactionIssue("unexpected parenthesis on final compaction"), i)
         ELSE LET c == Compact(f.operands, f.operators)
              IN  IF c.ok
                  THEN OGoto([f EXCEPT !.operands = c.operands,
                                       !.operators = c.operators], i)
                  ELSE OFail(c.err, i)
    ELSE IF Len(f.operands) = 0
         THEN OFail(OperandCompactionIssue("expected to have 1 operand"), i)
         ELSE ORet(<<"Operand", f.operands[1]>>, i)

\* match_expression (parser.rs 385-414): one iteration of the final
\* compaction, or, when its test fails, the check of what is left
ExpressionDrainStep(f, i) ==
    IF Len(f.operators) > 0 /\ Len(f.operands) >= 2
    THEN IF Last(f.operators) \in {LeftParenthesis, RightParenthesis}
         THEN OFail(OperandCompactionIssue("unexpected parenthesis on final compaction"), i)
         ELSE LET c == Compact(f.operands, f.operators)
              IN  IF c.ok
                  THEN OGoto([f EXCEPT !.operands = c.operands,
                                       !.operators = c.operators], i)
                  ELSE OFail(c.err, i)
    ELSE IF Len(f.operands) # 1 \/ Len(f.operators) # 0
         THEN OFail(OperandCompactionIssue("expected to have 1 operand"), i)
         ELSE ORet(<<"Operand", f.operands[1]>>, i)

\* match_base_term (parser.rs 507-526): a column or a number
BaseTermPlainStep(f, i) ==
    CASE Tok(i)[1] = "Identifier" ->
            LET n == match_table_name(i)
            IN  IF n.ok THEN ORet(<<"Column", <<"Direct", n.schema, n.name>>>>, n.idx)
                ELSE OFail(n.err, n.idx)
      [] Tok(i)[1] = "Number" ->
            LET value == Tok(i)[2]
                m == match_token(i, Number(value))
            IN  IF parse_i64(value).ok
                THEN ORet(<<"Value", <<"Numeric", parse_i64(value).val>>>>, m.idx)
                ELSE IF parse_f64(value).ok
                THEN ORet(<<"Value", <<"Numeric", parse_f64(value).val>>>>, m.idx)
                ELSE OFail(InvalidNumber(value), m.idx)
      [] OTHER -> OFail(NotImplemented("match_term"), i)

\* match_base_term (parser.rs 469-490, 507): the head of a call, or a plain term
BaseTermStartStep(f, i) ==
    IF NoMore(i) THEN OFail(NoMoreTokens, i)
    ELSE IF peek_match_token_types(i, <<AnyIdentifier, LeftParenthesis>>)
    THEN LET id_name == Tok(i)[2]
             m1 == match_token(i, Tok(i))
             m2 == match_token(m1.idx, LeftParenthesis)
         IN  IF ~m2.ok THEN OFail(m2.err, m2.idx)
             ELSE IF NoMore(m2.idx) THEN OFail(NoMoreTokens, m2.idx)
             ELSE IF Tok(m2.idx) = RightParenthesis
             THEN ORet(<<"Function", <<"UserDefined", id_name, <<>>>>>>, m2.idx)
             ELSE OGoto([f EXCEPT !.pc = "args", !.name = id_name], m2.idx)
    ELSE BaseTermPlainStep(f, i)

\* match_base_term (parser.rs 493-494, 501-504): the test of the argument loop
BaseTermArgsStep(f, i) ==
    IF NoMore(i) THEN OFail(NoMoreTokens, i)
    ELSE IF Tok(i) # RightParenthesis
    THEN OCall([f EXCEPT !.pc = "after_arg"], Frame("match_expression", "loop"), i)
    ELSE ORet(<<"Function", <<"UserDefined", f.name, f.list>>>>, i)

\* match_base_term (parser.rs 495-498): an argument's match_expression has returned
BaseTermAfterArgStep(f, i, expression) ==
    LET again == [f EXCEPT !.pc = "args", !.list = Append(@, expression)]
    IN  IF NoMore(i) THEN OFail(NoMoreTokens, i)
        ELSE IF Tok(i) = Comma THEN OGoto(again, match_token(i, Comma).idx)
        ELSE OGoto(again, i)

----------------------------------------------------------------------------
(* Inputs *)

RECURSIVE Flatten(_)
Flatten(ws) == IF ws = <<>> THEN <<>> ELSE Head(ws) \o Flatten(Tail(ws))

SP == <<" ">>
W_select == <<"s","e","l","e","c","t">>
W_from == <<"f","r","o","m">>
W_where == <<"w","h","e","r","e">>
W_as == <<"a","s">>
W_bike == <<"b","i","k","e">>
W_items == <<"i","t","e","m","s">>
W_bike_select == <<"b","i","k","e","_","s","e","l","e","c","t">>
W_count == <<"c","o","u","n","t">>
W_sum == <<"s","u","m">>
W_value == <<"v","a","l","u","e">>

\* "select * from t where <e>;"
WhereQuery(e) ==
    Flatten(<<W_select, SP, <<"*">>, SP, W_from, SP, <<"t">>, SP, W_where, SP,
              e, <<";">>>>)
\* "select <e> from t;"
SelectQuery(e) == Flatten(<<W_select, SP, e, SP, W_from, SP, <<"t">>, <<";">>>>)
\* "select * from <e>;"
FromQuery(e) == Flatten(<<W_select, SP, <<"*">>, SP, W_from, SP, e, <<";">>>>)

\* Operator chains: t1 op1 t2 ... opk tk+1 with at most MaxOps operators
MaxOps == 3

ChainOperators == { <<"+">>, <<"-">>, <<"*">>, <<"=">>,
                    <<" ","a","n","d"," ">>, <<" ","o","r"," ">> }

\* the k-th term of a chain is the number k
ChainTerm(k) == <<Digits[k + 1]>>

RECURSIVE Chain(_, _)
Chain(ops, k) ==
    IF k = 0 THEN ChainTerm(1)
    ELSE Chain(ops, k - 1) \o ops[k] \o ChainTerm(k + 1)

ChainsOver(operators, n) ==
    UNION { { [k |-> k, ops |-> ops] : ops \in [1..k -> operators] } : k \in 0..n }

ChainQueries == { WhereQuery(Chain(c.ops, c.k)) : c \in ChainsOver(ChainOperators, MaxOps) }

\* Chains of at most MaxParenOps operators with the terms i..j in parentheses
MaxParenOps == 2

RECURSIVE ParenChain(_, _, _, _)
ParenChain(ops, k, i, j) ==
    LET open == IF k + 1 = i THEN <<"(">> ELSE <<>>
        close == IF k + 1 = j THEN <<")">> ELSE <<>>
    IN  IF k = 0 THEN open \o ChainTerm(1) \o close
        ELSE ParenChain(ops, k - 1, i, j) \o ops[k] \o open \o ChainTerm(k + 1) \o close

ParenCases ==
    { [k |-> c.k, ops |-> c.ops, i |-> i, j |-> j] :
        c \in ChainsOver({ <<"+">>, <<"*">> }, MaxParenOps),
        i \in 1..(MaxParenOps + 1), j \in 1..(MaxParenOps + 1) }

ParenQueries ==
    { WhereQuery(ParenChain(c.ops, c.k, c.i, c.j)) :
        c \in { d \in ParenCases : d.i <= d.j /\ d.j <= d.k + 1 } }

\* Function calls name(e1, ..., en) with n <= MaxArgs
MaxArgs == 2

CallNames == { <<"f">>, W_count, W_sum }
CallArguments == { <<"a">>, <<"b">>, <<"*">>, W_value, <<"g","(",")">> }

RECURSIVE JoinComma(_, _)
JoinComma(args, n) ==
    IF n = 0 THEN <<>>
    ELSE IF n = 1 THEN args[1]
    ELSE JoinComma(args, n - 1) \o <<",", " ">> \o args[n]

Call(name, args, n) == name \o <<"(">> \o JoinComma(args, n) \o <<")">>

CallCases ==
    UNION { { [name |-> nm, n |-> n, args |-> args] :
                nm \in CallNames, args \in [1..n -> CallArguments] } : n \in 0..MaxArgs }

CallQueries ==
    { WhereQuery(Call(c.name, c.args, c.n)) : c \in CallCases }
    \cup { SelectQuery(Call(c.name, c.args, c.n)) : c \in CallCases }

\* Sub-selects nested at most MaxDepth deep, each level with or without an alias
MaxDepth == 2

RECURSIVE SubSelect(_, _)
SubSelect(aliases, d) ==
    IF d = 0 THEN Flatten(<<W_select, SP, <<"*">>, SP, W_from, SP, W_bike>>)
    ELSE Flatten(<<W_select, SP, <<"*">>, SP, W_from, SP, <<"(">>,
                   SubSelect(aliases, d - 1), <<")">>,
                   IF aliases[d] THEN SP \o W_as \o SP \o W_bike_select ELSE <<>> >>)

SubSelectCases ==
    UNION { { [d |-> d, aliases |-> al] : al \in [1..d -> BOOLEAN] } : d \in 0..MaxDepth }

SubSelectQueries == { SubSelect(c.aliases, c.d) \o <<";">> : c \in SubSelectCases }

\* One-, two- and three-part names, as table and as column
NameWords == { <<"t">>, W_bike, W_items }

NameCases ==
    { <<a>> : a \in NameWords }
    \cup { <<a, b>> : a \in NameWords, b \in NameWords }
    \cup { <<a, b, c>> : a \in {W_items}, b \in NameWords, c \in NameWords }

DottedName(parts) ==
    IF Len(parts) = 1 THEN parts[1]
    ELSE IF Len(parts) = 2 THEN parts[1] \o <<".">> \o parts[2]
    ELSE parts[1] \o <<".">> \o parts[2] \o <<".">> \o parts[3]

NameQueries ==
    { FromQuery(DottedName(n)) : n \in NameCases }
    \cup { WhereQuery(DottedName(n)) : n \in NameCases }
    \cup { SelectQuery(DottedName(n)) : n \in NameCases }

\* Queries of the whitespace harness
WsQueries ==
    { FromQuery(W_items \o <<".">> \o W_bike),
      SelectQuery(<<"t", ".", "*">>),
      SelectQuery(<<"f", "(", "a", ")">>),
      WhereQuery(<<"a", "=", "1">>),
      SubSelect(<<TRUE>>, 1) \o <<";">> }

\* Query strings for lex alone: every string of at most MaxQueryLen graphemes
\* over one of the alphabets
MaxQueryLen == 4

LexAlphabets == { {"a", "1", " ", "'", "\\", "!"},
                  {"<", ">", "=", "!", ".", "1", "#"},
                  {"a", "s", "A", "S", "c", "_"},
                  {"\"", Backtick, "'", "\\", "a", " "} }

\* longer strings: a keyword in four casings, a comparison with !=
LexExamples ==
    { W_select, to_uppercase(W_select),
      <<"S","e","l","e","c","t">>, <<"s","E","l","E","c","T">>,
      <<"a"," ","!","="," ","b">>,
      <<".","5">>, <<"1",".","5">>, <<"1",".","2",".","3">>, <<"a"," ",".","5",".">>,
      <<"a"," ","\t","\n","b">>, <<"'"," "," ","'"," "," ","\r">>,
      <<"\"">> \o W_select \o <<"\"">>, <<Backtick>> \o W_from \o <<Backtick, "1">>,
      <<"'">> \o W_select \o <<"'", ";">>,
      <<"'","a","\\","'","b","'","c">>, <<"'","<","=","\""," ",Backtick,"'","=">> }

LexQueries ==
    UNION { UNION { [1..n -> A] : n \in 0..MaxQueryLen } : A \in LexAlphabets }
    \cup LexExamples

\* A grapheme no tokenizer starts on, put at every place of a valid query
InsertGrapheme(q, p, c) == SubSeq(q, 1, p) \o <<c>> \o SubSeq(q, p + 1, Len(q))

UndefinedBases == { FromQuery(<<"t">>), WhereQuery(<<"a", "=", "1">>) }

UndefinedQueries ==
    UNION { { InsertGrapheme(q, p, "#") : p \in 0..Len(q) } : q \in UndefinedBases }

\* Valid queries with the trailing `;` left out
UnterminatedQueries ==
    { ButLast(q, 1) :
        q \in { FromQuery(W_bike),
                FromQuery(Flatten(<<W_bike, SP, W_where, SP, <<"a", " ", "=", " ", "1">>>>)),
                FromQuery(W_items \o <<".">> \o W_bike),
                SelectQuery(<<"a">>),
                SubSelect(<<TRUE>>, 1) \o <<";">>,
                SubSelect(<<FALSE>>, 1) \o <<";">> } }

\* Queries by their first token: nothing, white space only, and each of a
\* few tokens with and without white space before it and a statement after it
HeadWords ==
    { W_select, to_uppercase(W_select), W_from, W_where, <<"t">>, <<"1">>, <<"*">>,
      <<";">>, <<"(">>, <<"'", "x", "'">>, <<"#">> }

HeadQueries ==
    { <<>>, SP, <<" ", " ">>, <<"\t", "\n">> }
    \cup { lead \o w \o rest :
             lead \in { <<>>, SP, <<"\n", " ">> }, w \in HeadWords,
             rest \in { <<>>, SP \o <<"*">> \o SP \o W_from \o SP \o <<"t", ";">> } }

\* Select-lists of at most MaxItems items, each followed by a separator: a
\* comma, white space alone, or a `;`; with or without a comma before FROM
MaxItems == 2

ItemWords == { <<"*">>, <<"a">>, <<"t", ".", "*">>, <<"1">>,
               <<"a", " ", "a", "s", " ", "x">> }
ItemSeparators == { <<",", " ">>, <<" ">>, <<" ", ";", " ">> }

RECURSIVE ItemList(_, _, _)
ItemList(items, seps, n) ==
    IF n = 0 THEN <<>>
    ELSE IF n = 1 THEN items[1]
    ELSE ItemList(items, seps, n - 1) \o seps[n - 1] \o items[n]

ItemCases ==
    UNION { { [n |-> n, items |-> items, seps |-> seps, trailing |-> tr] :
                items \in [1..n -> ItemWords], seps \in [1..(n - 1) -> ItemSeparators],
                tr \in BOOLEAN } : n \in 0..MaxItems }

ItemQuery(c) ==
    SelectQuery(ItemList(c.items, c.seps, c.n) \o (IF c.trailing THEN <<",">> ELSE <<>>))

ItemQueries == { ItemQuery(c) : c \in ItemCases }

\* Expressions with no term or with an operator left over
DanglingExpressions ==
    { <<>>, <<"1", " ", "+">>, <<"1", " ", "+", " ", "2", " ", "*">>, <<"a", " ", "=">>,
      <<"f", "(", "1", " ", "+", ")">> }

DanglingQueries ==
    { FromQuery(Flatten(<<W_bike, SP, W_where, SP, e>>)) : e \in DanglingExpressions }
    \cup { ButLast(FromQuery(Flatten(<<W_bike, SP, W_where, SP, e>>)), 1) :
              e \in DanglingExpressions }
    \cup { SelectQuery(e) : e \in DanglingExpressions \ {<<>>} }

\* Number literals in term position, with what each is: an integer that fits
\* i64, an integer that does not, a text with one "." or a text with more
NumberCases ==
    { [text |-> <<"0">>, dots |-> 0, fits |-> TRUE],
      [text |-> <<"7">>, dots |-> 0, fits |-> TRUE],
      [text |-> <<"0", "0", "7">>, dots |-> 0, fits |-> TRUE],
      [text |-> I64Max, dots |-> 0, fits |-> TRUE],
      [text |-> ButLast(I64Max, 1) \o <<"8">>, dots |-> 0, fits |-> FALSE],
      [text |-> <<"1">> \o I64Max, dots |-> 0, fits |-> FALSE],
      [text |-> <<"1", ".", "5">>, dots |-> 1, fits |-> FALSE],
      [text |-> <<"1", ".">>, dots |-> 1, fits |-> FALSE],
      [text |-> <<"0", "1", ".", "5", "0">>, dots |-> 1, fits |-> FALSE],
      [text |-> <<"1", ".", "2", ".", "3">>, dots |-> 2, fits |-> FALSE],
      [text |-> <<"1", ".", ".", "2">>, dots |-> 2, fits |-> FALSE] }

NumberQueries ==
    { SelectQuery(c.text) : c \in NumberCases }
    \cup { WhereQuery(<<"a", " ", "=", " ">> \o c.text) : c \in NumberCases }

\* Chains of one or two operators with NOT, IS or IN among them
UnmappedOperators == { <<" ","n","o","t"," ">>, <<" ","i","s"," ">>, <<" ","i","n"," ">> }

UnmappedChains ==
    { c \in ChainsOver(UnmappedOperators \cup {<<"+">>, <<"=">>, <<" ","a","n","d"," ">>}, 2) :
        \E k \in 1..c.k : c.ops[k] \in UnmappedOperators }

UnmappedQueries ==
    { WhereQuery(Chain(c.ops, c.k)) : c \in UnmappedChains }
    \cup { SelectQuery(Chain(c.ops, c.k)) : c \in { d \in UnmappedChains : d.k = 1 } }

\* Statements followed by more input after their `;`
TrailingBases == { FromQuery(<<"t">>), WhereQuery(<<"a", "=", "1">>) }

TrailingTails ==
    { <<" ">>, <<" ", "\t", "\n">>, <<"#">>, <<" ", "#">>, <<";">>, <<")">>,
      <<" ">> \o W_from, <<"'", "a">>,
      FromQuery(<<"t">>), <<" ">> \o SelectQuery(<<"1">>), <<" ", " ">> \o W_select }

TrailingQueries == { b \o t : b \in TrailingBases, t \in TrailingTails }

\* Statements with FROM directly after SELECT
EmptyListTails ==
    { <<"t", ";">>,
      W_items \o <<".">> \o W_bike \o <<";">>,
      <<"t">> \o SP \o W_where \o SP \o <<"a", "=", "1", ";">>,
      <<"(">> \o W_select \o SP \o W_from \o SP \o <<"t", ")", ";">>,
      <<"(">> \o W_select \o SP \o <<"*">> \o SP \o W_from \o SP \o <<"t", ")", ";">> }

EmptyListQueries ==
    { s \o g \o W_from \o SP \o t :
        s \in {W_select, to_uppercase(W_select)}, g \in {SP, <<" ", "\n">>},
        t \in EmptyListTails }

\* String, boolean and null literals where a term is expected
LiteralWords ==
    { <<"'", "x", "'">>, <<"'", "'">>, <<"t","r","u","e">>, <<"T","R","U","E">>,
      <<"f","a","l","s","e">>, <<"n","u","l","l">> }

\* the places of a literal: "alone", "right" of an operator, "left" of one,
\* in the "middle" of a chain, as a select "item" and as a call "argument"
LiteralPlaces == {"alone", "right", "left", "middle", "item", "argument"}

LiteralQuery(w, place) ==
    CASE place = "alone" -> WhereQuery(w)
      [] place = "right" -> WhereQuery(<<"a", " ", "=", " ">> \o w)
      [] place = "left" -> WhereQuery(w \o <<" ", "=", " ", "1">>)
      [] place = "middle" -> WhereQuery(<<"1", " ", "+", " ">> \o w \o <<" ", "*", " ", "2">>)
      [] place = "item" -> SelectQuery(w)
      [] place = "argument" -> SelectQuery(<<"f", "(">> \o w \o <<")">>)

LiteralQueries == { LiteralQuery(w, place) : w \in LiteralWords, place \in LiteralPlaces }

\* Token jumbles: SELECT followed by at most MaxWords words in any order
MaxWords == 3

JumbleWords ==
    { W_from \o SP, <<"a">>, <<"(">>, <<")">>, <<",">>, <<"*">>, <<";">> }

RECURSIVE Jumbles(_)
Jumbles(n) ==
    IF n = 0 THEN { W_select \o SP }
    ELSE Jumbles(n - 1) \cup { q \o w : q \in Jumbles(n - 1), w \in JumbleWords }

JumbleQueries == Jumbles(MaxWords)

Queries == ChainQueries \cup ParenQueries \cup CallQueries \cup SubSelectQueries
           \cup NameQueries \cup UndefinedQueries \cup UnterminatedQueries
           \cup HeadQueries \cup ItemQueries \cup DanglingQueries \cup NumberQueries
           \cup UnmappedQueries \cup TrailingQueries \cup EmptyListQueries
           \cup LiteralQueries

----------------------------------------------------------------------------
(* The state machine *)

Top == stack[Len(stack)]

Apply(o) ==
    /\ token_index' = o.idx
    /\ CASE o.k = "fail" ->
              /\ result' = <<"Err", o.err, Top.fn>>
              /\ stack' = <<>>
              /\ ret' = None
              /\ phase' = "done"
         [] o.k = "ret" /\ Len(stack) = 1 ->
              /\ result' = <<"Ok", o.val>>
              /\ stack' = <<>>
              /\ ret' = None
              /\ phase' = "done"
         [] o.k = "ret" /\ Len(stack) > 1 ->
              /\ stack' = ButLast(stack, 1)
              /\ ret' = o.val
              /\ UNCHANGED <<result, phase>>
         [] o.k = "goto" ->
              /\ stack' = Append(ButLast(stack, 1), o.frame)
              /\ ret' = None
              /\ UNCHANGED <<result, phase>>
         [] o.k = "call" ->
              /\ stack' = Append(ButLast(stack, 1), o.frame)
                             \o <<[o.callee EXCEPT !.entry = o.idx]>>
              /\ ret' = None
              /\ UNCHANGED <<result, phase>>
    /\ UNCHANGED <<query, tokens, lexPos, lexTokens, lexTokenizer, run, first>>

At(fn, pcs) == phase = "parse" /\ stack # <<>> /\ Top.fn = fn /\ Top.pc \in pcs

\* lex (lex.rs 524-561): the loop body for the next grapheme of the query
LexGrapheme ==
    /\ phase = "lex"
    /\ lexPos < Len(query)
    /\ \E st \in {LexGraphemeStep([tokens |-> lexTokens, tokenizer |-> lexTokenizer],
                                    query[lexPos + 1])} :
           /\ lexTokens' = st.tokens
           /\ lexTokenizer' = st.tokenizer
    /\ lexPos' = lexPos + 1
    /\ UNCHANGED <<query, phase, tokens, token_index, stack, ret, result, run, first>>

\* lex returns (lex.rs 563-569) and Parser::new stores the tokens
\* (parser.rs 39-45); parse is entered next
LexReturn ==
    /\ phase = "lex"
    /\ lexPos = Len(query)
    /\ lexTokens' = LexFinish([tokens |-> lexTokens, tokenizer |-> lexTokenizer])
    /\ tokens' = lexTokens'
    /\ token_index' = 0
    /\ stack' = <<Frame("parse", "start")>>
    /\ phase' = "parse"
    /\ UNCHANGED <<query, lexPos, lexTokenizer, ret, result, run, first>>

ParseStart == At("parse", {"start"}) /\ (\E o \in {ParseStartStep(Top, token_index)} : Apply(o))
ParseAfterSelect ==
    At("parse", {"after_select"}) /\ (\E o \in {ParseAfterSelectStep(Top, token_index, ret)} : Apply(o))
MatchSelectStart ==
    At("match_select", {"start"}) /\ (\E o \in {MatchSelectStartStep(Top, token_index)} : Apply(o))
MatchSelectAfter ==
    /\ At("match_select", {"after_list", "after_from", "after_where"})
    /\ (\E o \in {MatchSelectAfterStep(Top, token_index, ret)} : Apply(o))
SelectListLoop ==
    At("match_select_expressions", {"loop"}) /\ (\E o \in {SelectListLoopStep(Top, token_index)} : Apply(o))
SelectListAfterExpr ==
    /\ At("match_select_expressions", {"after_expr"})
    /\ (\E o \in {SelectListAfterExprStep(Top, token_index, ret)} : Apply(o))
TableExpressionStart ==
    /\ At("match_table_expression", {"start"})
    /\ (\E o \in {TableExpressionStartStep(Top, token_index)} : Apply(o))
TableExpressionAfterSelect ==
    /\ At("match_table_expression", {"after_select"})
    /\ (\E o \in {TableExpressionAfterSelectStep(Top, token_index, ret)} : Apply(o))
WhereStart ==
    At("match_where_expression", {"start"}) /\ (\E o \in {WhereStartStep(Top, token_index)} : Apply(o))
WhereAfterExpr ==
    /\ At("match_where_expression", {"after_expr"})
    /\ (\E o \in {WhereAfterExprStep(Top, token_index, ret)} : Apply(o))
ExpressionLoop ==
    At("match_expression", {"loop"}) /\ (\E o \in {ExpressionLoopStep(Top, token_index)} : Apply(o))
ExpressionAfterTerm ==
    /\ At("match_expression", {"after_term"})
    /\ (\E o \in {ExpressionAfterTermStep(Top, token_index, ret)} : Apply(o))
ExpressionDrain ==
    At("match_expression", {"drain"}) /\ (\E o \in {ExpressionDrainStep(Top, token_index)} : Apply(o))
BaseTermStart ==
    At("match_base_term", {"start"}) /\ (\E o \in {BaseTermStartStep(Top, token_index)} : Apply(o))
BaseTermArgs ==
    At("match_base_term", {"args"}) /\ (\E o \in {BaseTermArgsStep(Top, token_index)} : Apply(o))
BaseTermAfterArg ==
    /\ At("match_base_term", {"after_arg"})
    /\ (\E o \in {BaseTermAfterArgStep(Top, token_index, ret)} : Apply(o))

Running == <<"Running">>

Init ==
    /\ query \in Queries
    /\ phase = "lex"
    /\ lexPos = 0
    /\ lexTokens = <<>>
    /\ lexTokenizer = NoTokenizer
    /\ tokens = <<>>
    /\ token_index = 0
    /\ stack = <<>>
    /\ ret = None
    /\ result = Running
    /\ run = 1
    /\ first = Running

Next ==
    \/ LexGrapheme
    \/ LexReturn
    \/ ParseStart
    \/ ParseAfterSelect
    \/ MatchSelectStart
    \/ MatchSelectAfter
    \/ SelectListLoop
    \/ SelectListAfterExpr
    \/ TableExpressionStart
    \/ TableExpressionAfterSelect
    \/ WhereStart
    \/ WhereAfterExpr
    \/ ExpressionLoop
    \/ ExpressionAfterTerm
    \/ ExpressionDrain
    \/ BaseTermStart
    \/ BaseTermArgs
    \/ BaseTermAfterArg

Spec == Init /\ [][Next]_vars

----------------------------------------------------------------------------
(* lex run on its own: Parser::new on every short string                   *)

LexInit ==
    /\ query \in LexQueries
    /\ phase = "lex"
    /\ lexPos = 0
    /\ lexTokens = <<>>
    /\ lexTokenizer = NoTokenizer
    /\ tokens = <<>>
    /\ token_index = 0
    /\ stack = <<>>
    /\ ret = None
    /\ result = Running
    /\ run = 1
    /\ first = Running

LexNext == LexGrapheme \/ LexReturn

LexSpec == LexInit /\ [][LexNext]_vars

----------------------------------------------------------------------------
(* The whitespace harness: a query is parsed, then parsed again with one   *)
(* more space inserted somewhere, each time by a new Parser.  first keeps  *)
(* the tokens and the result of the first parse.                           *)

StripSpaces(toks) == SelectSeq(toks, LAMBDA t : t # Space)

InsertSpace(q, p) == SubSeq(q, 1, p) \o SP \o SubSeq(q, p + 1, Len(q))

Restart ==
    /\ phase = "done"
    /\ run = 1
    /\ \E p \in 0..Len(query) : query' = InsertSpace(query, p)
    /\ first' = <<"First", tokens, result>>
    /\ run' = 2
    /\ phase' = "lex"
    /\ lexPos' = 0
    /\ lexTokens' = <<>>
    /\ lexTokenizer' = NoTokenizer
    /\ result' = Running
    /\ tokens' = <<>>
    /\ token_index' = 0
    /\ stack' = <<>>
    /\ ret' = None

WsInit ==
    /\ query \in WsQueries
    /\ phase = "lex"
    /\ lexPos = 0
    /\ lexTokens = <<>>
    /\ lexTokenizer = NoTokenizer
    /\ tokens = <<>>
    /\ token_index = 0
    /\ stack = <<>>
    /\ ret = None
    /\ result = Running
    /\ run = 1
    /\ first = Running

WsNext == Next \/ Restart

WsSpec == WsInit /\ [][WsNext]_vars

----------------------------------------------------------------------------
(* Parser::new and parse run to completion: the program is sequential, so  *)
(* a step that can be taken is taken.                                      *)

FairQueries ==
    JumbleQueries \cup SubSelectQueries
    \cup { SelectQuery(Call(c.name, c.args, c.n)) : c \in CallCases }
    \cup { WhereQuery(Chain(c.ops, c.k)) : c \in ChainsOver({<<"+">>, <<"*">>}, MaxOps) }

FairInit ==
    /\ query \in FairQueries
    /\ phase = "lex"
    /\ lexPos = 0
    /\ lexTokens = <<>>
    /\ lexTokenizer = NoTokenizer
    /\ tokens = <<>>
    /\ token_index = 0
    /\ stack = <<>>
    /\ ret = None
    /\ result = Running
    /\ run = 1
    /\ first = Running

\* where the lexer and the cursor stand, and for every active method its
\* place in the code and the sizes of its stacks
control ==
    <<phase, lexPos, token_index,
      [k \in DOMAIN stack |->
          <<stack[k].fn, stack[k].pc, stack[k].last_was_term, Len(stack[k].list),
            Len(stack[k].operands), Len(stack[k].operators)>>]>>

FairSpec == FairInit /\ [][Next]_vars /\ WF_control(Next)

----------------------------------------------------------------------------
(* Token::token_types_match called on every pair of a set of tokens: the   *)
(* pair is held in tokens and the bool it returns in result.               *)

TokenPayloads == { <<>>, <<"a">>, <<"1">>, <<"a", "b">> }

AllTokens ==
    { Select, Where, From, And, Or, Not, Limit, Is, As, Null, Order, By, Asc, Desc,
      In, True, False, Star, Comma, LessThan, LessThanEqual, GreaterThan,
      GreaterThanEqual, Equal, NotEqual, LeftParenthesis, RightParenthesis,
      Semicolon, Period, Space, Plus, Minus, ForwardSlash, UndefinedTokenType }
    \cup { Number(s) : s \in TokenPayloads }
    \cup { StringToken(s) : s \in TokenPayloads }
    \cup { Identifier(s) : s \in TokenPayloads }

TypesInit ==
    /\ tokens \in { <<t1, t2>> : t1 \in AllTokens, t2 \in AllTokens }
    /\ phase = "types"
    /\ query = <<>>
    /\ lexPos = 0
    /\ lexTokens = <<>>
    /\ lexTokenizer = NoTokenizer
    /\ token_index = 0
    /\ stack = <<>>
    /\ ret = None
    /\ result = Running
    /\ run = 1
    /\ first = Running

TypesMatch ==
    /\ phase = "types"
    /\ result' = <<"Bool", token_types_match(tokens[1], tokens[2])>>
    /\ phase' = "done"
    /\ UNCHANGED <<query, lexPos, lexTokens, lexTokenizer, tokens, token_index, stack,
                   ret, run, first>>

TypesNext == TypesMatch

TypesSpec == TypesInit /\ [][TypesNext]_vars

----------------------------------------------------------------------------
(* Reference values the properties compare the parser's results with      *)

Done == phase = "done"
ParsedOk == Done /\ result[1] = "Ok"

\* the operand leaf of the number k, of a column, of a call
NumberLeaf(k) == <<"Term", <<"Value", <<"Numeric", <<"Int", <<Digits[k + 1]>>>>>>>>>>
ColumnTerm(schema, name) == <<"Column", <<"Direct", schema, name>>>>
AsExpression(term) == <<"Operand", <<"Term", term>>>>

StatementOf(select_expressions, from_expression, where_expression) ==
    <<"Select", [select_expressions |-> select_expressions,
                 from_expression |-> from_expression,
                 where_expression |-> where_expression]>>

TableT == <<"Table", None, <<"t">>>>

\* what "select * from t where <e>;" is to give when <e> is the tree
OkWhere(tree) == <<"Ok", StatementOf(<< <<"Star">> >>, TableT, Some(<<"Operand", tree>>))>>
\* what "select <e> from t;" is to give when <e> is the term
OkSelect(term) ==
    <<"Ok", StatementOf(<< <<"Expression", term, None>> >>, TableT, None)>>
\* what "select * from <e>;" is to give when <e> is the table expression
OkFrom(table) == <<"Ok", StatementOf(<< <<"Star">> >>, table, None)>>

\* the precedence table and the node of each operator, by the operator's text
RefPrecedence(op) ==
    CASE op = <<" ","o","r"," ">> -> 7
      [] op = <<" ","a","n","d"," ">> -> 8
      [] op = <<"=">> -> 9
      [] op \in { <<"+">>, <<"-">> } -> 10
      [] op = <<"*">> -> 11

RefVariant(op) ==
    CASE op = <<" ","o","r"," ">> -> "Or"
      [] op = <<" ","a","n","d"," ">> -> "And"
      [] op = <<"=">> -> "Equal"
      [] op = <<"+">> -> "Addition"
      [] op = <<"-">> -> "Subtraction"
      [] op = <<"*">> -> "Multiplication"

\* the left-associative precedence parse of the terms lo..hi of a chain: the
\* root is the rightmost operator of least precedence
RECURSIVE RefTree(_, _, _)
RefTree(ops, lo, hi) ==
    IF lo = hi THEN NumberLeaf(lo)
    ELSE LET least == { i \in lo..(hi - 1) :
                          \A j \in lo..(hi - 1) : RefPrecedence(ops[i]) <= RefPrecedence(ops[j]) }
             root == CHOOSE i \in least : \A j \in least : j <= i
         IN  <<RefVariant(ops[root]), RefTree(ops, lo, root), RefTree(ops, root + 1, hi)>>

\* (((t1 op1 t2) op2 t3) ... opk tk+1)
RECURSIVE LeftNested(_, _)
LeftNested(ops, k) ==
    IF k = 0 THEN NumberLeaf(1)
    ELSE <<RefVariant(ops[k]), LeftNested(ops, k - 1), NumberLeaf(k + 1)>>

SamePrecedence(c) ==
    \A i \in 1..c.k : \A j \in 1..c.k : RefPrecedence(c.ops[i]) = RefPrecedence(c.ops[j])

RECURSIVE RefSubSelect(_, _)
RefSubSelect(aliases, d) ==
    IF d = 0
    THEN [select_expressions |-> << <<"Star">> >>,
          from_expression |-> <<"Table", None, W_bike>>,
          where_expression |-> None]
    ELSE [select_expressions |-> << <<"Star">> >>,
          from_expression |-> <<"Select", RefSubSelect(aliases, d - 1),
                                IF aliases[d] THEN Some(W_bike_select) ELSE None>>,
          where_expression |-> None]

IsUndefinedStart(c) ==
    ~(QuotedStart(c) \/ KeywordStart(c) \/ SymbolStart(c) \/ NumberStart(c) \/ SpaceStart(c))

\* the quote that is open in q just before its p-th grapheme ("" when none),
\* with the place where it opened
RECURSIVE OpenQuote(_, _)
OpenQuote(q, p) ==
    IF p = 1 THEN [quote |-> "", at |-> 0]
    ELSE LET before == OpenQuote(q, p - 1)
             c == q[p - 1]
         IN  IF before.quote = ""
             THEN IF c \in QuoteTypes THEN [quote |-> c, at |-> p - 1] ELSE before
             ELSE IF c = before.quote /\ ~(p - 2 > before.at /\ q[p - 2] = "\\")
                  THEN [quote |-> "", at |-> 0]
                  ELSE before

\* the p-th grapheme of q starts no token and lies in no quoted literal
UndefinedAt(q, p) == IsUndefinedStart(q[p]) /\ OpenQuote(q, p).quote = ""

NumberOfUndefined(toks) == Cardinality({ i \in DOMAIN toks : toks[i] = UndefinedTokenType })

TokenVariants ==
    { "Select", "Where", "From", "And", "Or", "Not", "Limit", "Is", "As", "Null",
      "Order", "By", "Asc", "Desc", "In", "True", "False", "Star", "Comma", "LessThan",
      "LessThanEqual", "GreaterThan", "GreaterThanEqual", "Equal", "NotEqual",
      "LeftParenthesis", "RightParenthesis", "Semicolon", "Period", "Space", "Plus",
      "Minus", "ForwardSlash", "Number", "StringToken", "Identifier",
      "UndefinedTokenType" }

----------------------------------------------------------------------------
(* Properties *)

\* C1: lex is total: on every query it can always take its next step until it
\* has returned (it takes each grapheme once and then returns a sequence of
\* tokens), and every grapheme that starts no sub-tokenizer and is not inside
\* a quoted literal gives exactly one UndefinedTokenType token, emitted at its
\* place in the input: right after it is read that token is the last one and
\* no tokenizer is active.
C1_LexTotal ==
    /\ lexPos \in 0..Len(query)
    /\ phase = "lex" => ENABLED LexNext
    /\ \A i \in DOMAIN lexTokens : lexTokens[i][1] \in TokenVariants
    /\ NumberOfUndefined(lexTokens)
          = Cardinality({ p \in 1..lexPos : UndefinedAt(query, p) })
    /\ (lexPos > 0 /\ UndefinedAt(query, lexPos))
          => Last(lexTokens) = UndefinedTokenType /\ lexTokenizer = NoTokenizer

\* an unrecognized grapheme between two tokens has been lexed
C1_Witness ==
    /\ phase = "parse"
    /\ query = <<"a", "!", "1">>
    /\ tokens = <<Identifier(<<"a">>), UndefinedTokenType, Number(<<"1">>)>>

Q_Precedence == WhereQuery(<<"1", "+", "2", "*", "3">>)

\* C2: the where-clause expression 1+2*3 parses to
\* Addition(1, Multiplication(2, 3)).
C2_Precedence ==
    (Done /\ query = Q_Precedence)
        => result = OkWhere(<<"Addition", NumberLeaf(1),
                              <<"Multiplication", NumberLeaf(2), NumberLeaf(3)>>>>)

C2_Witness == ParsedOk /\ query = Q_Precedence

\* C3: every parenthesis-free chain of number terms and binary operators
\* parses to the tree of the left-associative precedence parser over the
\* table OR=7 < AND=8 < comparisons=9 < {+,-}=10 < {*,/}=11.
C3_MatchesReference ==
    Done => \A c \in ChainsOver(ChainOperators, MaxOps) :
                query = WhereQuery(Chain(c.ops, c.k))
                    => result = OkWhere(RefTree(c.ops, 1, c.k + 1))

Q_Grouping == WhereQuery(<<"(", "1", "+", "2", ")", "*", "3">>)

\* C4: the where-clause expression (1+2)*3 parses, and gives
\* Multiplication(Addition(1, 2), 3).
C4_Grouping ==
    (Done /\ query = Q_Grouping)
        => result = OkWhere(<<"Multiplication",
                              <<"Addition", NumberLeaf(1), NumberLeaf(2)>>, NumberLeaf(3)>>)

\* C5: a chain t1 op t2 ... op tn (n >= 2) whose operators all have the same
\* precedence parses to the left-nested tree (((t1 op t2) op t3) ... op tn).
C5_LeftAssociative ==
    Done => \A c \in ChainsOver(ChainOperators, MaxOps) :
                (c.k >= 1 /\ SamePrecedence(c) /\ query = WhereQuery(Chain(c.ops, c.k)))
                    => result = OkWhere(LeftNested(c.ops, c.k))

C5_Witness == ParsedOk /\ query = WhereQuery(<<"1", "-", "2", "-", "3">>)

SameOutcome(r1, r2) ==
    \/ r1[1] = "Ok" /\ r2[1] = "Ok" /\ r1 = r2
    \/ r1[1] = "Err" /\ r2[1] = "Err"

\* C6: two queries whose token streams are equal once the Space tokens are
\* deleted give the same result: the same AST, or both fail.
C6_WhitespaceTransparent ==
    (Done /\ run = 2 /\ StripSpaces(tokens) = StripSpaces(first[2]))
        => SameOutcome(first[3], result)

CallF(terms) == <<"Function", <<"UserDefined", <<"f">>, terms>>>>

\* C7: a call in term position parses to UserDefined{name, terms} and is
\* consumed through its `)`: "select * from t where f();" and
\* "select f(a, b) from t;" parse, f() with terms = [].
C7_CallParses ==
    /\ (Done /\ query = WhereQuery(<<"f", "(", ")">>))
          => result = OkWhere(<<"Term", CallF(<<>>)>>)
    /\ (Done /\ query = SelectQuery(<<"f", "(", "a", ",", " ", "b", ")">>))
          => result = OkSelect(AsExpression(CallF(
                 <<AsExpression(ColumnTerm(None, <<"a">>)),
                   AsExpression(ColumnTerm(None, <<"b">>))>>)))

\* C8: count(*) parses to Function::Count(Star) and sum(value) to
\* Function::Sum(term).
C8_CountAndSum ==
    /\ (Done /\ query = WhereQuery(W_count \o <<"(", "*", ")">>))
          => result = OkWhere(<<"Term", <<"Function", <<"Count", <<"Star">>>>>>>>)
    /\ (Done /\ query = WhereQuery(W_sum \o <<"(">> \o W_value \o <<")">>))
          => result = OkWhere(<<"Term", <<"Function",
                 <<"Sum", AsExpression(ColumnTerm(None, W_value))>>>>>>)

\* C9: a parenthesized sub-select as table source parses recursively, at
\* every depth: it gives TableExpression::Select holding the inner
\* statement (select-list [Star], from the inner table expression, no
\* where), with alias Some(name) when `as name` follows the `)` and None when
\* it does not; "select * from (select * from bike) as bike_select;" is the
\* case of depth 1.
C9_SubSelect ==
    Done => \A c \in SubSelectCases :
                query = SubSelect(c.aliases, c.d) \o <<";">>
                    => result = <<"Ok", <<"Select", RefSubSelect(c.aliases, c.d)>>>>

C9_Witness ==
    /\ ParsedOk
    /\ query = SubSelect(<<TRUE>>, 1) \o <<";">>
    /\ result[2][2].from_expression[1] = "Select"
    /\ result[2][2].from_expression[3] = Some(W_bike_select)

\* C10: "select * from S.T;" gives select-list [Star], from
\* Table{schema: Some(S), table: T} and no where, "select * from T;" gives
\* Table{schema: None, table: T}, and the same names as column references
\* give Column::Direct{schema, column_name}.
C10_Names ==
    Done => \A a \in NameWords :
              /\ query = FromQuery(a) => result = OkFrom(<<"Table", None, a>>)
              /\ query = WhereQuery(a)
                    => result = OkWhere(<<"Term", ColumnTerm(None, a)>>)
              /\ \A b \in NameWords :
                   /\ query = FromQuery(DottedName(<<a, b>>))
                         => result = OkFrom(<<"Table", Some(a), b>>)
                   /\ query = WhereQuery(DottedName(<<a, b>>))
                         => result = OkWhere(<<"Term", ColumnTerm(Some(a), b)>>)
                   /\ query = SelectQuery(DottedName(<<a, b>>))
                         => result = OkSelect(AsExpression(ColumnTerm(Some(a), b)))

C10_Witness ==
    /\ ParsedOk
    /\ query = FromQuery(DottedName(<<W_items, W_bike>>))
    /\ result[2][2].from_expression = <<"Table", Some(W_items), W_bike>>

\* the keyword whose text is the lower-cased text, or Identifier(text)
RefKeywordToken(text) ==
    LET hits == { i \in DOMAIN Keywords : Keywords[i].text = to_lowercase(text) }
    IN  IF hits # {} THEN Keywords[CHOOSE i \in hits : TRUE].token ELSE Identifier(text)

\* q is one run of ASCII letters, digits and underscores that starts a keyword
\* or an identifier
IsWord(q) ==
    /\ q # <<>>
    /\ IsAsciiAlphabetic(q[1]) \/ q[1] = "_"
    /\ \A i \in DOMAIN q : IsAsciiAlphabetic(q[i]) \/ IsAsciiDigit(q[i]) \/ q[i] = "_"

Lexed == phase = "parse"

\* C11: keyword recognition is case-insensitive: a query that is one run of
\* ASCII letters, digits and underscores lexes to the one keyword token whose
\* text is the lower-cased run, in every casing, and to Identifier(text) when
\* there is no such keyword.
C11_CaseInsensitive ==
    (Lexed /\ IsWord(query)) => tokens = <<RefKeywordToken(query)>>

\* C12: the text != lexes to the single token NotEqual, and a != b lexes to
\* Identifier, Space, NotEqual, Space, Identifier.
C12_NotEqualToken ==
    /\ (Lexed /\ query = <<"!", "=">>) => tokens = <<NotEqual>>
    /\ (Lexed /\ query = <<"a", " ", "!", "=", " ", "b">>)
          => tokens = <<Identifier(<<"a">>), Space, NotEqual, Space, Identifier(<<"b">>)>>

HasUndefinedToken == \E i \in DOMAIN tokens : tokens[i] = UndefinedTokenType

\* C13: every query whose token stream holds an UndefinedTokenType token is
\* rejected by parse, and the error is an InvalidToken, wherever the
\* unrecognized grapheme stands.
C13_UndefinedRejected ==
    (Done /\ HasUndefinedToken) => (result[1] = "Err" /\ result[2][1] = "InvalidToken")

\* C14: an otherwise valid query without its trailing `;` fails, and the
\* error is raised by parse itself, in the match_token(Semicolon) that
\* follows the return of match_select.
C14_MissingSemicolon ==
    (Done /\ query \in UnterminatedQueries) => (result[1] = "Err" /\ result[3] = "parse")

\* the first token that is not a leading Space, when there is one
HasFirstToken == tokens # <<>> /\ ~(tokens = <<Space>>)
FirstToken == IF tokens[1] = Space THEN tokens[2] ELSE tokens[1]

\* C15: parse fails with EmptyQueryString exactly when the token vector is
\* empty; when the first token after one leading Space is not SELECT, parse
\* fails with InvalidToken(that token), raised by parse itself, and returns
\* no Statement.
C15_FirstToken ==
    Done =>
      /\ (result[1] = "Err" /\ result[2] = EmptyQueryString) <=> (tokens = <<>>)
      /\ (HasFirstToken /\ FirstToken # Select)
            => result = <<"Err", InvalidToken(FirstToken), "parse">>

\* a query that starts with white space and FROM has been rejected
C15_Witness ==
    /\ Done
    /\ Len(tokens) >= 2 /\ tokens[1] = Space /\ tokens[2] = From
    /\ result = <<"Err", InvalidToken(From), "parse">>

\* the SelectExpression of an item of ItemWords
RefItem(w) ==
    CASE w = <<"*">> -> <<"Star">>
      [] w = <<"t", ".", "*">> -> <<"Family", <<"t">>>>
      [] w = <<"a">> -> <<"Expression", AsExpression(ColumnTerm(None, <<"a">>)), None>>
      [] w = <<"1">> -> <<"Expression", <<"Operand", NumberLeaf(1)>>, None>>
      [] w = <<"a", " ", "a", "s", " ", "x">> ->
            <<"Expression", AsExpression(ColumnTerm(None, <<"a">>)), Some(<<"x">>)>>

AllCommas(c) == \A k \in 1..(c.n - 1) : c.seps[k] = <<",", " ">>

\* a `*` next to a separator of white space alone can be read as a
\* multiplication inside one item, so such a list has no fixed item boundaries
StarGlued(c) ==
    \E k \in 1..(c.n - 1) :
        c.seps[k] = <<" ">> /\ (c.items[k] = <<"*">> \/ c.items[k + 1] = <<"*">>)

\* C16: a select-list whose items are all separated by `,` parses with the
\* select_expressions in source order; one in which an item is followed by a
\* token other than `,` or FROM fails; and one whose last item is followed by
\* `,` and then FROM fails with InvalidToken(FROM).
C16_SelectList ==
    Done => \A c \in ItemCases :
        query = ItemQuery(c) =>
          /\ (AllCommas(c) /\ ~c.trailing)
                => result = <<"Ok", StatementOf([k \in 1..c.n |-> RefItem(c.items[k])],
                                                TableT, None)>>
          /\ (~AllCommas(c) /\ ~StarGlued(c)) => result[1] = "Err"
          /\ (AllCommas(c) /\ c.trailing /\ c.n >= 1)
                => result = <<"Err", InvalidToken(From), "match_select_expressions">>

\* a list of two items has been parsed
C16_Witness ==
    /\ ParsedOk
    /\ query = SelectQuery(<<"a", " ", "a", "s", " ", "x", ",", " ", "t", ".", "*">>)
    /\ Len(result[2][2].select_expressions) = 2

\* the quote that is open once lex has taken the first p graphemes of the query
OpenAfter(p) == OpenQuote(query, p + 1)

\* the token of a literal opened by quote q
QuoteToken(q, text) == IF q = "'" THEN StringToken(text) ELSE Identifier(text)

\* while a quote is open, the active tokenizer is that literal's and holds
\* every grapheme taken since the quote
OpenLiteralAbsorbs ==
    (phase = "lex" /\ OpenAfter(lexPos).quote # "")
        => /\ lexTokenizer = [kind |-> "Quoted", quote |-> OpenAfter(lexPos).quote,
                              text |-> SubSeq(query, OpenAfter(lexPos).at + 1, lexPos)]
           /\ ENABLED LexNext

\* a grapheme taken inside an open literal adds no token, and the return of
\* lex with a literal open adds exactly one: the literal's
OpenLiteralStep ==
    (phase = "lex" /\ OpenAfter(lexPos).quote # "")
        => /\ (phase' = "lex" /\ OpenAfter(lexPos').quote # "") => lexTokens' = lexTokens
           /\ phase' = "parse"
                 => tokens' = Append(lexTokens,
                                     QuoteToken(OpenAfter(lexPos).quote,
                                                SubSeq(query, OpenAfter(lexPos).at + 1,
                                                       Len(query))))

\* C17: an unterminated quoted literal does not stop lex: from the opening
\* quote on, every grapheme is absorbed into the one open tokenizer and no
\* token is emitted, and at the end of the input that tokenizer is finalized
\* into exactly one last token, a StringToken for ' and an Identifier for "
\* and the backtick, whose text is everything after the opening quote.
C17_UnterminatedLiteral == []OpenLiteralAbsorbs /\ [][OpenLiteralStep]_vars

\* a literal with an escaped quote was still open at the end of the input
C17_Witness ==
    /\ Lexed
    /\ query = <<"a", "'", "\\", "'">>
    /\ tokens = <<Identifier(<<"a">>), StringToken(<<"\\", "'">>)>>

\* C18: token_types_match(a, b) is true exactly when a and b are the same
\* variant, whatever the payloads of Number, StringToken and Identifier: it
\* is reflexive and symmetric, two tokens of one of these three variants
\* match with different payloads, and two different variants never match.
C18_SameVariant ==
    (phase = "done" /\ result[1] = "Bool") =>
      LET a == tokens[1]
          b == tokens[2]
      IN  /\ result[2] = (a[1] = b[1])
          /\ result[2] = token_types_match(b, a)
          /\ token_types_match(a, a)

\* two identifiers with different payloads have been compared and match
C18_Witness ==
    /\ phase = "done"
    /\ tokens = <<Identifier(<<"a">>), Identifier(<<"a", "b">>)>>
    /\ result = <<"Bool", TRUE>>

\* what one step of parse does to the cursor and the stacks: the cursor
\* never moves back; a step that stays in the select-list loop or in the
\* expression loop moves it forward; a step that stays in the drain loop
\* shrinks both stacks; and match_select, match_expression and
\* match_base_term return with the cursor past the place they were called at
ParseStepProgress ==
    phase = "parse" =>
      /\ token_index' >= token_index
      /\ (phase' = "parse" /\ Len(stack') = Len(stack)
          /\ stack'[Len(stack')].fn = Top.fn /\ stack'[Len(stack')].pc = Top.pc)
            => IF Top.pc = "drain"
               THEN /\ Len(stack'[Len(stack')].operators) < Len(Top.operators)
                    /\ Len(stack'[Len(stack')].operands) < Len(Top.operands)
               ELSE token_index' > token_index
      /\ (phase' = "parse" /\ Len(stack') = Len(stack) - 1
          /\ Top.fn \in {"match_select", "match_expression", "match_base_term"})
            => token_index' > Top.entry

\* C19: parse terminates: the cursor token_index never decreases, every
\* iteration of a parser loop and every recursive call advances the cursor,
\* shrinks a stack or returns an error, and every run reaches the return of
\* parse.
C19_Terminates == [][ParseStepProgress]_control /\ <>(phase = "done")

\* a statement with a sub-select, parsed by a recursive call of
\* match_select, has been parsed to its end
C19_Witness ==
    /\ Done
    /\ result[1] = "Ok"
    /\ query \in SubSelectQueries
    /\ token_index = Len(tokens)

\* match_expression stands at its final check: the compaction loop's test
\* (parser.rs 385) fails
AtFinalCheck ==
    /\ At("match_expression", {"drain"})
    /\ ~(Len(Top.operators) > 0 /\ Len(Top.operands) >= 2)

\* what a step of match_expression does at the final check, and where a
\* return of match_expression comes from
FinalCheckStep ==
    /\ AtFinalCheck =>
         IF Len(Top.operands) = 1 /\ Len(Top.operators) = 0
         THEN /\ phase' = "parse"
              /\ Len(stack') = Len(stack) - 1
              /\ ret' = <<"Operand", Top.operands[1]>>
         ELSE /\ phase' = "done"
              /\ result'[1] = "Err"
              /\ result'[2][1] = "OperandCompactionIssue"
              /\ result'[3] = "match_expression"
    /\ (At("match_expression", {"loop", "after_term", "drain"})
        /\ phase' = "parse" /\ Len(stack') = Len(stack) - 1)
         => (AtFinalCheck /\ Len(Top.operands) = 1 /\ Len(Top.operators) = 0)

\* the outcome of a query whose expression has no term or ends in an operator
DanglingFails ==
    (Done /\ query \in DanglingQueries)
        => /\ result[1] = "Err"
           /\ result[3] = "match_expression"
           /\ result[2][1] \in {"OperandCompactionIssue", "NoMoreTokens"}
           /\ Last(query) = ";" => result[2][1] = "OperandCompactionIssue"

\* C20: match_expression returns Ok only if exactly one operand and no
\* operator remain after the final drain, and every other final shape is an
\* OperandCompactionIssue; a where-clause with no term and an expression that
\* ends in a dangling operator fail in match_expression and give no tree.
C20_FinalShape == []DanglingFails /\ [][FinalCheckStep]_control

\* the expression "1 +" has reached the final check with one operand and one
\* operator left and has been rejected
C20_Witness ==
    /\ Done
    /\ query = FromQuery(Flatten(<<W_bike, SP, W_where, SP, <<"1", " ", "+">>>>))
    /\ result = <<"Err", OperandCompactionIssue("expected to have 1 operand"),
                  "match_expression">>

\* the number of graphemes a finished token was made of, for tokens of
\* unquoted words, numbers, symbols, single-quoted literals and one-grapheme
\* whitespace
TokenWidth(t) ==
    CASE t[1] \in {"Identifier", "Number"} -> Len(t[2])
      [] t[1] = "StringToken" -> Len(t[2]) + 2
      [] t \in {Space, UndefinedTokenType} -> 1
      [] \E i \in DOMAIN Keywords : Keywords[i].token = t ->
            Len(Keywords[CHOOSE i \in DOMAIN Keywords : Keywords[i].token = t].text)
      [] OTHER -> Len(Symbols[CHOOSE i \in DOMAIN Symbols : Symbols[i].token = t].text)

RECURSIVE TokensWidth(_)
TokensWidth(toks) ==
    IF toks = <<>> THEN 0 ELSE TokenWidth(toks[1]) + TokensWidth(Tail(toks))

\* the number of graphemes the active tokenizer holds
TokenizerWidth(t) ==
    CASE t.kind = "None" -> 0
      [] t.kind = "Quoted" -> Len(t.text) + 1
      [] t.kind = "Space" -> 1
      [] OTHER -> Len(t.text)

\* a query whose token widths can be read off its tokens: no double quote or
\* backtick, and no two whitespace graphemes in a row
PlainWidths(q) ==
    /\ \A i \in DOMAIN q : q[i] \notin {"\"", Backtick}
    /\ \A i \in 1..(Len(q) - 1) : ~(IsWhitespace(q[i]) /\ IsWhitespace(q[i + 1]))

\* every grapheme read so far is in exactly one token or in the active
\* tokenizer, and a tokenizer that keeps text holds the last graphemes read
GraphemesAccounted ==
    phase = "lex" =>
      /\ lexTokenizer.kind \in {"None", "Quoted", "Keyword", "Symbol", "Number", "Space"}
      /\ lexTokenizer.kind \in {"Quoted", "Keyword", "Symbol", "Number"}
            => lexTokenizer.text = SubSeq(query, lexPos - Len(lexTokenizer.text) + 1, lexPos)
      /\ PlainWidths(query)
            => TokensWidth(lexTokens) + TokenizerWidth(lexTokenizer) = lexPos

\* the tokenizers a grapheme can start
Seeded(c) ==
    { t \in {QuotedNew(c), KeywordNew(c), SymbolNew(c), NumberNew(c), SpaceNew(c)} :
        \/ t.kind = "Quoted" /\ c \in QuoteTypes
        \/ t.kind = "Keyword" /\ (IsAsciiAlphabetic(c) \/ c = "_")
        \/ t.kind = "Symbol" /\ \E i \in DOMAIN Symbols : Symbols[i].text = <<c>>
        \/ t.kind = "Number" /\ (IsAsciiDigit(c) \/ c = ".")
        \/ t.kind = "Space" /\ IsWhitespace(c) }

\* one iteration of lex with an active tokenizer, by the answer of
\* add_next_character for the grapheme read
HandOffStep ==
    (phase = "lex" /\ lexPos' = lexPos + 1 /\ lexTokenizer # NoTokenizer) =>
      LET g == query[lexPos + 1]
          r == add_next_character(lexTokenizer, g)
          emitted == Append(lexTokens, to_token(r.t))
      IN  /\ (r.done /\ ~r.consumed) =>
                IF Seeded(g) # {}
                THEN lexTokens' = emitted /\ lexTokenizer' \in Seeded(g)
                ELSE /\ lexTokens' = Append(emitted, UndefinedTokenType)
                     /\ lexTokenizer' = NoTokenizer
          /\ (r.done /\ r.consumed) =>
                lexTokens' = emitted /\ lexTokenizer' = NoTokenizer
          /\ ~r.done => lexTokens' = lexTokens /\ lexTokenizer'.kind = lexTokenizer.kind

\* tokens are only ever added at the end
EmittedInOrder ==
    /\ Len(lexTokens') >= Len(lexTokens)
    /\ SubSeq(lexTokens', 1, Len(lexTokens)) = lexTokens

\* C21: when the active tokenizer answers (done, not consumed) for a grapheme,
\* lex emits its token, clears it and in the same step dispatches the grapheme
\* as the start of a new token or emits UndefinedTokenType for it; when it
\* answers (done, consumed) the grapheme is not dispatched again; at most one
\* tokenizer is active, tokens are emitted in input order and every grapheme
\* is in exactly one token.
C21_HandOff == []GraphemesAccounted /\ [][HandOffStep /\ EmittedInOrder]_vars

\* "a" has just been ended by a space: Identifier("a") is emitted and the
\* space tokenizer started in the same step
C21_Witness ==
    /\ phase = "lex"
    /\ lexPos = 2
    /\ SubSeq(query, 1, 2) = <<"a", " ">>
    /\ lexTokens = <<Identifier(<<"a">>)>>
    /\ lexTokenizer = SpaceNew(" ")

\* the kind of tokenizer the start predicates give a grapheme when they are
\* asked in the order quoted, keyword, symbol, number, whitespace
FirstStart(c) ==
    LET order == <<"Quoted", "Keyword", "Symbol", "Number", "Space">>
        starts == { k \in DOMAIN order :
                      \/ order[k] = "Quoted" /\ QuotedStart(c)
                      \/ order[k] = "Keyword" /\ KeywordStart(c)
                      \/ order[k] = "Symbol" /\ SymbolStart(c)
                      \/ order[k] = "Number" /\ NumberStart(c)
                      \/ order[k] = "Space" /\ SpaceStart(c) }
    IN  IF starts = {} THEN "None"
        ELSE order[CHOOSE k \in starts : \A j \in starts : k <= j]

\* a grapheme met with no active tokenizer starts the first tokenizer of the
\* order that accepts it, and a "." met by an active number is absorbed
DispatchOrderStep ==
    (phase = "lex" /\ lexPos' = lexPos + 1) =>
      LET g == query[lexPos + 1]
      IN  /\ lexTokenizer = NoTokenizer => lexTokenizer'.kind = FirstStart(g)
          /\ (lexTokenizer = NoTokenizer /\ g = ".") => lexTokenizer' = SymbolNew(".")
          /\ (lexTokenizer.kind = "Number" /\ g = ".")
                => /\ lexTokenizer' = [lexTokenizer EXCEPT !.text = Append(@, ".")]
                   /\ lexTokens' = lexTokens

\* no number, finished or being read, begins with "."
NoNumberStartsWithPeriod ==
    /\ \A i \in DOMAIN lexTokens :
          lexTokens[i][1] = "Number" => lexTokens[i][2][1] # "."
    /\ lexTokenizer.kind = "Number" => lexTokenizer.text[1] # "."

PeriodExamples ==
    Lexed =>
      /\ query = <<".", "5">> => tokens = <<Period, Number(<<"5">>)>>
      /\ query = <<"1", ".", "5">> => tokens = <<Number(<<"1", ".", "5">>)>>
      /\ query = <<"1", ".", "2", ".", "3">>
            => tokens = <<Number(<<"1", ".", "2", ".", "3">>)>>

\* C22: with no active tokenizer the start predicates are tried in the order
\* quoted, keyword, symbol, number, whitespace and the first match wins; a "."
\* met with no active tokenizer begins a Period and never a Number, so no
\* Number begins with "." (".5" is Period, Number("5")), and a "." met inside
\* a Number is absorbed ("1.5" and "1.2.3" are one Number each).
C22_DispatchOrder ==
    [](NoNumberStartsWithPeriod /\ PeriodExamples) /\ [][DispatchOrderStep]_vars

\* ".5" has been lexed
C22_Witness ==
    /\ Lexed
    /\ query = <<".", "5">>
    /\ tokens = <<Period, Number(<<"5">>)>>

\* the token of a one-grapheme symbol
OneGraphemeSymbol(c) ==
    Symbols[CHOOSE i \in DOMAIN Symbols : Symbols[i].text = <<c>>].token

\* the tokens of a run of symbol graphemes, read left to right: "<" or ">"
\* directly followed by "=" is one token, every other grapheme is a token
RECURSIVE RefSymbolTokens(_)
RefSymbolTokens(q) ==
    IF q = <<>> THEN <<>>
    ELSE IF Len(q) >= 2 /\ q[1] \in {"<", ">"} /\ q[2] = "="
    THEN <<IF q[1] = "<" THEN LessThanEqual ELSE GreaterThanEqual>>
            \o RefSymbolTokens(SubSeq(q, 3, Len(q)))
    ELSE <<OneGraphemeSymbol(q[1])>> \o RefSymbolTokens(Tail(q))

IsSymbolRun(q) ==
    q # <<>> /\ \A i \in DOMAIN q : \E k \in DOMAIN Symbols : Symbols[k].text = <<q[i]>>

\* an active symbol tokenizer holds one grapheme; it takes the next one only
\* when it holds "<" or ">" and the next one is "=", and otherwise is emitted
\* alone while the next grapheme starts a token of its own
SymbolStep ==
    (phase = "lex" /\ lexPos' = lexPos + 1 /\ lexTokenizer.kind = "Symbol") =>
      LET g == query[lexPos + 1]
          held == lexTokenizer.text
      IN  /\ Len(held) = 1
          /\ IF held[1] \in {"<", ">"} /\ g = "="
             THEN /\ lexTokens' = Append(lexTokens, IF held[1] = "<" THEN LessThanEqual
                                                    ELSE GreaterThanEqual)
                  /\ lexTokenizer' = NoTokenizer
             ELSE /\ Len(lexTokens') > Len(lexTokens)
                  /\ lexTokens'[Len(lexTokens) + 1] = OneGraphemeSymbol(held[1])
                  /\ IF FirstStart(g) = "None"
                     THEN lexTokens' = lexTokens \o <<OneGraphemeSymbol(held[1]),
                                                      UndefinedTokenType>>
                     ELSE /\ Len(lexTokens') = Len(lexTokens) + 1
                          /\ lexTokenizer'.kind = FirstStart(g)
                          /\ lexTokenizer'.text = IF FirstStart(g) \in {"Quoted", "Space"}
                                                  THEN <<>> ELSE <<g>>

SymbolRuns ==
    (Lexed /\ IsSymbolRun(query)) => tokens = RefSymbolTokens(query)

\* C23: symbol tokens are one grapheme long except that "<" or ">" directly
\* followed by "=" is the one token LessThanEqual or GreaterThanEqual; "<" or
\* ">" followed by anything else is emitted alone and the following grapheme
\* starts a new token; no other symbol takes a second grapheme ("==" is
\* Equal, Equal and "<>" is LessThan, GreaterThan).
C23_Symbols == []SymbolRuns /\ [][SymbolStep]_vars

\* "<>=" has been lexed to LessThan, GreaterThanEqual
C23_Witness ==
    /\ Lexed
    /\ query = <<"<", ">", "=">>
    /\ tokens = <<LessThan, GreaterThanEqual>>

\* grapheme p of q is whitespace outside every quoted literal
BareWhitespace(q, p) == IsWhitespace(q[p]) /\ OpenQuote(q, p).quote = ""

\* the places where a maximal run of whitespace outside literals begins
WhitespaceRuns(q) ==
    { p \in DOMAIN q : BareWhitespace(q, p) /\ (p = 1 \/ ~BareWhitespace(q, p - 1)) }

SpacesIn(toks) == { i \in DOMAIN toks : toks[i] = Space }

\* C24: every maximal run of whitespace outside a quoted literal lexes to
\* exactly one Space token whatever its length, and the output of lex never
\* has two Space tokens next to each other.
C24_OneSpace ==
    /\ \A i \in 1..(Len(lexTokens) - 1) : ~(lexTokens[i] = Space /\ lexTokens[i + 1] = Space)
    /\ Lexed => /\ Cardinality(SpacesIn(tokens)) = Cardinality(WhitespaceRuns(query))
                /\ \A i \in 1..(Len(tokens) - 1) : ~(tokens[i] = Space /\ tokens[i + 1] = Space)

\* a run of a space, a tab and a newline between two words has given one
\* Space token
C24_Witness ==
    /\ Lexed
    /\ query = <<"a", " ", "\t", "\n", "b">>
    /\ tokens = <<Identifier(<<"a">>), Space, Identifier(<<"b">>)>>

\* the places after the opening quote q[1] where a matching quote stands
\* that is not directly preceded by a backslash
ClosingPlaces(q) ==
    { p \in 2..Len(q) : q[p] = q[1] /\ ~(p > 2 /\ q[p - 1] = "\\") }

\* the place of the first of them
ClosingPlace(q) == CHOOSE p \in ClosingPlaces(q) : \A r \in ClosingPlaces(q) : p <= r

\* the token of the literal a query begins with
FirstLiteral(q) ==
    IF q[1] = "'" THEN StringToken(SubSeq(q, 2, ClosingPlace(q) - 1))
    ELSE Identifier(SubSeq(q, 2, ClosingPlace(q) - 1))

\* C25: a literal opened by a single quote, a double quote or a backtick takes
\* every following grapheme up to the first matching quote that is not
\* directly preceded by a backslash; a matching quote after a backslash is
\* part of the payload; the two quotes are not; the closing quote is consumed
\* and the next grapheme starts a new token; single-quoted text is a
\* StringToken and double-quoted or backtick text an Identifier, also when it
\* spells a keyword.
C25_QuotedLiteral ==
    (query # <<>> /\ query[1] \in QuoteTypes /\ ClosingPlaces(query) # {}) =>
      LET close == ClosingPlace(query)
      IN  /\ (phase = "lex" /\ lexPos \in 1..(close - 1))
                => /\ lexTokens = <<>>
                   /\ lexTokenizer = [kind |-> "Quoted", quote |-> query[1],
                                      text |-> SubSeq(query, 2, lexPos)]
          /\ (phase = "lex" /\ lexPos = close)
                => lexTokens = <<FirstLiteral(query)>> /\ lexTokenizer = NoTokenizer
          /\ (phase = "lex" /\ lexPos = close + 1)
                => IF FirstStart(query[close + 1]) = "None"
                   THEN /\ lexTokens = <<FirstLiteral(query), UndefinedTokenType>>
                        /\ lexTokenizer = NoTokenizer
                   ELSE /\ lexTokens = <<FirstLiteral(query)>>
                        /\ lexTokenizer.kind = FirstStart(query[close + 1])
          /\ Lexed => /\ tokens # <<>>
                      /\ tokens[1] = FirstLiteral(query)
                      /\ close = Len(query) => Len(tokens) = 1

\* a single-quoted literal with an escaped quote inside, followed by a word
C25_Witness ==
    /\ Lexed
    /\ query = <<"'", "a", "\\", "'", "b", "'", "c">>
    /\ tokens = <<StringToken(<<"a", "\\", "'", "b">>), Identifier(<<"c">>)>>

\* the number literal of a query of NumberQueries
NumberCase ==
    CHOOSE c \in NumberCases :
        query \in {SelectQuery(c.text), WhereQuery(<<"a", " ", "=", " ">> \o c.text)}

\* what the query is to give when its literal is the numeric value v
NumberOutcome(v) ==
    IF query = SelectQuery(NumberCase.text)
    THEN OkSelect(AsExpression(<<"Value", <<"Numeric", v>>>>))
    ELSE OkWhere(<<"Equal", <<"Term", ColumnTerm(None, <<"a">>)>>,
                   <<"Term", <<"Value", <<"Numeric", v>>>>>>>>)

\* the numeric value in the tree of a parsed query of NumberQueries
NumberParsed ==
    IF query = SelectQuery(NumberCase.text)
    THEN result[2][2].select_expressions[1][2][2][2][2][2]
    ELSE result[2][2].where_expression[2][2][3][2][2][2]

GivesInt ==
    /\ result[1] = "Ok"
    /\ NumberParsed = <<"Int", StripLeadingZeros(NumberCase.text)>>
    /\ result = NumberOutcome(NumberParsed)
GivesFloat ==
    /\ result[1] = "Ok"
    /\ NumberParsed[1] = "Float"
    /\ result = NumberOutcome(NumberParsed)
GivesInvalidNumber ==
    result = <<"Err", InvalidNumber(NumberCase.text), "match_base_term">>

\* C26 as stated: text with no "." that fits i64 gives Numeric::Int, text with
\* exactly one "." gives Numeric::Float, and any other text fails with
\* InvalidNumber(text).
C26_AsStated ==
    (Done /\ query \in NumberQueries) =>
        IF NumberCase.dots = 0 /\ NumberCase.fits THEN GivesInt
        ELSE IF NumberCase.dots = 1 THEN GivesFloat
        ELSE GivesInvalidNumber

\* C26: a Number token in term position is parsed as i64 first and as f64
\* second: text with no "." that fits i64 gives Numeric::Int, every other text
\* with at most one "." gives Numeric::Float (an integer too large for i64
\* included), and text with two or more "." fails the whole parse with
\* InvalidNumber(text).
C26_NumberConversion ==
    (Done /\ query \in NumberQueries) =>
        IF NumberCase.dots = 0 /\ NumberCase.fits THEN GivesInt
        ELSE IF NumberCase.dots <= 1 THEN GivesFloat
        ELSE GivesInvalidNumber

\* the integer one above the largest i64 has been parsed to a Float
C26_Witness ==
    /\ Done
    /\ query = SelectQuery(ButLast(I64Max, 1) \o <<"8">>)
    /\ GivesFloat

\* the tokens match_token is asked for: every token of the query, and the
\* same variants with another payload
ExpectedTokens ==
    Range(tokens) \cup {Select, From, Semicolon, Space, AnyIdentifier, AnyNumber}

\* match_token called at any cursor i of a lexed query for any expected token
MatchTokenFrame ==
    At("parse", {"start"}) =>
      \A i \in 0..Len(tokens), e \in ExpectedTokens :
        LET m == match_token(i, e)
        IN  IF i >= Len(tokens)
            THEN ~m.ok /\ m.err = NoMoreTokens /\ m.idx = i
            ELSE IF tokens[i + 1] = e
            THEN /\ m.ok
                 /\ m.idx > i /\ m.idx <= Len(tokens)
                 /\ \A k \in (i + 2)..m.idx : tokens[k] = Space
                 /\ m.idx < Len(tokens) => tokens[m.idx + 1] # Space
            ELSE ~m.ok /\ m.err = InvalidNextToken(e, tokens[i + 1]) /\ m.idx = i

\* a step of parse leaves the token vector alone, and a cursor it moves
\* ends past the last token or on a token that is not Space
CursorStep ==
    phase = "parse" =>
      /\ tokens' = tokens
      /\ token_index' # token_index
            => /\ token_index' <= Len(tokens)
               /\ token_index' < Len(tokens) => tokens[token_index' + 1] # Space

\* C27: match_token(expected) consumes iff the current token equals expected
\* in variant and payload; on a match the cursor moves past that token and
\* past the Space tokens directly after it, so it is then at the end or on a
\* token that is not Space; on a mismatch it returns
\* InvalidNextToken(expected, actual) and at the end of input NoMoreTokens,
\* with the cursor unchanged; no parser operation modifies the token vector.
C27_MatchToken == []MatchTokenFrame /\ [][CursorStep]_control

\* SELECT has been matched and the Space after it skipped
C27_Witness ==
    /\ phase = "parse"
    /\ Len(tokens) >= 3
    /\ token_index = 2
    /\ tokens[1] = Select /\ tokens[2] = Space /\ tokens[3] # Space

\* the keyword token of an operator of UnmappedOperators
UnmappedToken(op) ==
    CASE op = <<" ","n","o","t"," ">> -> Not
      [] op = <<" ","i","s"," ">> -> Is
      [] op = <<" ","i","n"," ">> -> In

\* the chain of a query of UnmappedQueries
UnmappedCase ==
    CHOOSE c \in UnmappedChains :
        query \in {WhereQuery(Chain(c.ops, c.k)), SelectQuery(Chain(c.ops, c.k))}

\* the first NOT, IS or IN of the chain: with at most two operators it is
\* the first of them handed to apply_operator_to_terms
FirstUnmapped ==
    LET c == UnmappedCase
        k == CHOOSE j \in 1..c.k :
                /\ c.ops[j] \in UnmappedOperators
                /\ \A h \in 1..(j - 1) : c.ops[h] \notin UnmappedOperators
    IN  UnmappedToken(c.ops[k])

UnmappedFails ==
    (Done /\ query \in UnmappedQueries) =>
        result = <<"Err", OperandTokenNotImplemented(FirstUnmapped), "match_expression">>

\* the node kinds apply_operator_to_terms builds, and the leaf
MappedVariants ==
    {"Term", "Addition", "Subtraction", "Multiplication", "Division", "Equal",
     "NotEqual", "LessThan", "LessThanOrEqual", "GreaterThan",
     "GreaterThanOrEqual", "Or", "And"}

\* every operand on the operand stack of every running match_expression is a
\* leaf or a mapped node; each node of a returned tree was such an operand
\* when it was built, and the root of a returned expression is one as well
OnlyMappedNodes ==
    /\ phase = "parse" =>
          \A d \in 1..Len(stack) : \A k \in 1..Len(stack[d].operands) :
              stack[d].operands[k][1] \in MappedVariants
    /\ (ParsedOk /\ query \in ChainQueries) =>
          result[2][2].where_expression[2][2][1] \in MappedVariants

\* C28: only + - * /, = != < > <= >= and AND OR are mapped to a node: a chain
\* in which NOT, IS or IN stands between two terms fails with
\* OperandTokenNotImplemented when that operator is reduced, and no tree under
\* construction or returned holds a node of any other kind (none of Not,
\* IsNull, IsNotNull, UnaryMinus, StringConcatenation).
C28_OperatorMapping == UnmappedFails /\ OnlyMappedNodes

\* "1 + 2 not 3": the addition was reduced, then NOT refused
C28_Witness ==
    /\ Done
    /\ query = WhereQuery(<<"1", "+", "2", " ","n","o","t"," ", "3">>)
    /\ result = <<"Err", OperandTokenNotImplemented(Not), "match_expression">>

\* the parts of the dotted name of a query of NameQueries
NameCase ==
    CHOOSE n \in NameCases :
        query \in {FromQuery(DottedName(n)), WhereQuery(DottedName(n)),
                   SelectQuery(DottedName(n))}

\* the Table or Column::Direct the name of the query was parsed to
NameParsed ==
    IF query = FromQuery(DottedName(NameCase))
    THEN result[2][2].from_expression
    ELSE IF query = WhereQuery(DottedName(NameCase))
    THEN result[2][2].where_expression[2][2][2][2]
    ELSE result[2][2].select_expressions[1][2][2][2][2]

\* the payloads of the Identifier tokens of the query
IdentifierTexts == { t[2] : t \in { u \in Range(tokens) : u[1] = "Identifier" } }

\* a parsed dotted name has one or two parts: its last part is the name and
\* the part before it, if any, the schema
AtMostOneQualifier ==
    (ParsedOk /\ query \in NameQueries) =>
        /\ Len(NameCase) <= 2
        /\ NameParsed[1] \in {"Table", "Direct"}
        /\ NameParsed[2] = (IF Len(NameCase) = 2 THEN Some(NameCase[1]) ELSE None)
        /\ NameParsed[3] = NameCase[Len(NameCase)]

\* the schema of the table of any parsed statement is absent or the text of
\* one Identifier token
OneIdentifierSchema ==
    (ParsedOk /\ result[2][2].from_expression[1] = "Table") =>
        result[2][2].from_expression[2] \in {None} \cup { Some(w) : w \in IdentifierTexts }

ThreePartNameFails ==
    (Done /\ query \in NameQueries /\ Len(NameCase) = 3) => result[1] = "Err"

\* C29: a name carries at most one schema qualifier: each Table and each
\* Column::Direct of a parsed statement has no schema or exactly one, and a
\* three-part name a.b.c after FROM or in an expression never parses.
C29_OneQualifier == AtMostOneQualifier /\ OneIdentifierSchema /\ ThreePartNameFails

\* "select * from items.t.bike;" has been refused at the second period
C29_Witness ==
    /\ Done
    /\ query = FromQuery(DottedName(<<W_items, <<"t">>, W_bike>>))
    /\ result = <<"Err", InvalidNextToken(Semicolon, Period), "parse">>

\* the statement of a query of TrailingQueries, and what it alone parses to
TrailingBase == CHOOSE b \in TrailingBases : \E t \in TrailingTails : query = b \o t

TrailingOutcome ==
    IF TrailingBase = FromQuery(<<"t">>)
    THEN OkFrom(TableT)
    ELSE OkWhere(<<"Equal", <<"Term", ColumnTerm(None, <<"a">>)>>,
                   <<"Term", <<"Value", <<"Numeric", <<"Int", <<"1">>>>>>>>>>>>)

\* the index of the first `;` token
FirstSemicolon ==
    CHOOSE p \in 0..(Len(tokens) - 1) :
        /\ Tok(p) = Semicolon
        /\ \A k \in 0..(p - 1) : Tok(k) # Semicolon

\* the statement is returned whatever follows its `;`
TrailingIgnored == (Done /\ query \in TrailingQueries) => result = TrailingOutcome

\* C30 as stated: the statement is returned whatever follows its `;`, and
\* the cursor is then on the token just after the `;`.
C30_AsStated ==
    (Done /\ query \in TrailingQueries) =>
        /\ result = TrailingOutcome
        /\ token_index = FirstSemicolon + 1

\* C30: parse does not require the whole input to be consumed: once
\* SELECT ... `;` has matched it returns Ok(Statement) whatever tokens follow
\* the `;` (UndefinedTokenType, a second statement), with the cursor past the
\* `;` and past the Space tokens directly after it.
C30_TrailingInput ==
    (Done /\ query \in TrailingQueries) =>
        /\ result = TrailingOutcome
        /\ token_index > FirstSemicolon /\ token_index <= Len(tokens)
        /\ \A k \in (FirstSemicolon + 1)..(token_index - 1) : Tok(k) = Space
        /\ token_index < Len(tokens) => Tok(token_index) # Space

\* a second statement follows the first after a blank: the first is returned
\* and the cursor is on the second SELECT
C30_Witness ==
    /\ Done
    /\ query = FromQuery(<<"t">>) \o <<" ">> \o SelectQuery(<<"1">>)
    /\ result = OkFrom(TableT)
    /\ token_index = FirstSemicolon + 2
    /\ Tok(token_index) = Select

\* in a query of EmptyListQueries the select-list routine of the outer
\* SELECT adds no item and calls nothing: its loop body never runs
LoopRunsZeroTimes ==
    (phase = "parse" /\ query \in EmptyListQueries /\ Len(stack) >= 3
        /\ stack[3].fn = "match_select_expressions") =>
        /\ Len(stack) = 3
        /\ stack[3].pc = "loop"
        /\ stack[3].list = <<>>

EmptyListParses ==
    (Done /\ query \in EmptyListQueries) =>
        /\ result[1] = "Ok"
        /\ result[2][1] = "Select"
        /\ result[2][2].select_expressions = <<>>
        /\ query = W_select \o SP \o W_from \o SP \o <<"t", ";">>
              => result = <<"Ok", StatementOf(<<>>, TableT, None)>>

\* C31: the select-list may be empty: when FROM directly follows SELECT
\* ("select from t;") the select-list loop runs zero times and parse
\* succeeds with select_expressions = [].
C31_EmptySelectList == LoopRunsZeroTimes /\ EmptyListParses

\* "select from t;" has been parsed to a statement with no select expression
C31_Witness ==
    /\ ParsedOk
    /\ query = W_select \o SP \o W_from \o SP \o <<"t", ";">>
    /\ result[2][2].select_expressions = <<>>
    /\ result[2][2].from_expression = TableT

\* the frames of match_expression on the call stack
ExpressionFrames == { d \in 1..Len(stack) : stack[d].fn = "match_expression" }

\* at the head of an iteration of the expression loop there is one operand
\* more than operators after a term and as many after an operator
BalancedAtLoopHead ==
    phase = "parse" =>
        \A d \in ExpressionFrames :
            stack[d].pc = "loop" =>
                Len(stack[d].operands) =
                    Len(stack[d].operators) + (IF stack[d].last_was_term THEN 1 ELSE 0)

\* the operator stack of match_expression holds expression operators only
OnlyExpressionOperators ==
    phase = "parse" =>
        \A d \in ExpressionFrames : \A k \in 1..Len(stack[d].operators) :
            /\ is_expression_operator(stack[d].operators[k])
            /\ stack[d].operators[k] \notin {LeftParenthesis, RightParenthesis}

\* C32: at the head of every iteration of the expression loop
\* operands.len() = operators.len() + (1 if last_was_term else 0), and the
\* operator stack holds only tokens for which is_expression_operator is true:
\* no LeftParenthesis or RightParenthesis is ever on it.
C32_StackInvariant == BalancedAtLoopHead /\ OnlyExpressionOperators

\* a loop head with two operators waiting and the second just pushed
C32_Witness ==
    /\ At("match_expression", {"loop"})
    /\ Len(Top.operators) = 2
    /\ Len(Top.operands) = 2
    /\ ~Top.last_was_term

\* the tokens of the literals that are not numbers
IsLiteralToken(t) == t[1] = "StringToken" \/ t \in {True, False, Null}

\* a query with such a literal where a term is expected fails at the final
\* check of match_expression: the loop stops in front of the literal
LiteralFails ==
    (Done /\ query \in LiteralQueries) =>
        result = <<"Err", OperandCompactionIssue("expected to have 1 operand"),
                   "match_expression">>

\* match_base_term is never entered in front of such a literal
LiteralNeverATerm ==
    (At("match_base_term", {"start"}) /\ ~NoMore(token_index)) =>
        ~IsLiteralToken(Tok(token_index))

\* every Value among the operands of every running match_expression is a
\* Value::Numeric; each leaf of a returned tree was such an operand
NumericLeaves ==
    phase = "parse" =>
        \A d \in 1..Len(stack) : \A k \in 1..Len(stack[d].operands) :
            LET operand == stack[d].operands[k]
            IN  (operand[1] = "Term" /\ operand[2][1] = "Value")
                    => operand[2][2][1] = "Numeric"

\* C33: only columns, numbers and function calls can be expression terms: a
\* StringToken, TRUE, FALSE or NULL in term position (where name = 'x',
\* where true) makes parse fail, and every Value leaf of a tree is
\* Value::Numeric.
C33_NumericLeavesOnly == LiteralFails /\ LiteralNeverATerm /\ NumericLeaves

\* "select * from t where a = 'x';" has failed with the column a and the
\* operator = left on the stacks
C33_Witness ==
    /\ Done
    /\ query = WhereQuery(<<"a", " ", "=", " ", "'", "x", "'">>)
    /\ tokens[Len(tokens) - 1] = StringToken(<<"x">>)
    /\ result = <<"Err", OperandCompactionIssue("expected to have 1 operand"),
                  "match_expression">>

\* the token vectors the parser looks ahead for (parser.rs 153, 254, 472,
\* 531-536)
PeekPatterns ==
    { <<AnyIdentifier, Period, Star>>, <<AnyIdentifier, Period, AnyIdentifier>>,
      <<AnyIdentifier, LeftParenthesis>>, <<AnyIdentifier>>, <<AnyNumber>> }

\* at any cursor of a lexed query a look-ahead of N tokens is false when
\* fewer than N are left, and a look-ahead that is true has read only
\* tokens that exist
PeekStaysInside ==
    At("parse", {"start"}) =>
        \A i \in 0..Len(tokens), e \in PeekPatterns :
            /\ i + Len(e) > Len(tokens) => ~peek_match_token_types(i, e)
            /\ peek_match_token_types(i, e) =>
                  \A k \in 1..Len(e) :
                      /\ i + k - 1 < Len(tokens)
                      /\ tokens[i + k][1] = e[k][1]

\* the cursor never passes the end of the tokens, so next_token and the
\* loop of read_next_token read tokens[token_index] only while it exists
CursorInside == phase = "parse" => token_index <= Len(tokens)

\* a step of match_expression that takes operands off finds two operands and
\* one operator, and puts one operand back
PopStep ==
    (/\ At("match_expression", {"loop", "drain"})
     /\ phase' = "parse" /\ Len(stack') = Len(stack)
     /\ Len(stack'[Len(stack')].operands) < Len(Top.operands))
        => /\ Len(Top.operands) >= 2
           /\ Len(Top.operators) >= 1
           /\ Len(stack'[Len(stack')].operands) = Len(Top.operands) - 1
           /\ Len(stack'[Len(stack')].operators) \in
                  {Len(Top.operators) - 1, Len(Top.operators)}

\* match_expression returns, taking operands[0], with exactly one operand
ReturnStep ==
    (/\ At("match_expression", {"loop", "drain"})
     /\ phase' = "parse" /\ Len(stack') < Len(stack))
        => Len(Top.operands) = 1 /\ Len(Top.operators) = 0

\* C34: no parser operation reads past the tokens or takes from a stack that
\* is too short: every read of tokens[i] happens with i < tokens.len(),
\* peek_match_token_types is false without reading when fewer than N tokens
\* remain and moves no cursor, and operands and operators are removed only
\* when there are two operands and one operator.
C34_NoPanic ==
    [](PeekStaysInside /\ CursorInside) /\ [][PopStep /\ ReturnStep]_control

\* "select * from bike" has been read to its last token: the look-aheads
\* there were refused and the missing `;` is NoMoreTokens
C34_Witness ==
    /\ Done
    /\ query = ButLast(FromQuery(W_bike), 1)
    /\ token_index = Len(tokens)
    /\ result = <<"Err", NoMoreTokens, "match_where_expression">>

====
